---------------------------- MODULE Spec2Model ----------------------------
(***************************************************************************)
(* A model of the goauld document index: a collection of JSON-LD documents *)
(* kept in an ordered key/value store, secondary indices over term paths,  *)
(* and the query planner that answers Find/Iterate/IndexIterate.           *)
(*                                                                         *)
(* Byte strings are tuples of numbers 0..255.  A document is named by a    *)
(* DocId; Expanded(d) is the tree json.Unmarshal + JSON-LD expansion give  *)
(* for its bytes.                                                          *)
(***************************************************************************)
EXTENDS Integers, Sequences, FiniteSets, TLC

\* ------------------------------------------------------------------ bounds
\* documents handed to one Add call
MaxAddSet == 2
\* indices handed to one AddIndex call
MaxAddIndex == 2
\* parts of one query
MaxQueryParts == 2
\* collection values created over the one store, the first included
MaxHandles == 2
\* write calls followed through the collection values created after the first
MaxWrites == 2
\* the longest key part, in bytes, and the most parts of a key handed to the
\* key codec
MaxPartLen == 2
MaxKeyParts == 2
\* the most documents added to one index bucket by direct calls of Index.Add
MaxIndexAdds == 2
\* the most query values built by New and And
MaxQueryValues == 5

\* ------------------------------------------------------------- byte strings
KeyDelimiter == 16

Min(a, b) == IF a < b THEN a ELSE b

\* bytes.Compare: -1, 0 or 1 by lexicographic byte order
BytesCompare(a, b) ==
    LET n == Min(Len(a), Len(b))
        diff == {i \in 1..n : a[i] # b[i]}
    IN  IF diff = {}
        THEN IF Len(a) < Len(b) THEN -1 ELSE IF Len(a) > Len(b) THEN 1 ELSE 0
        ELSE LET i == CHOOSE j \in diff : \A k \in diff : j <= k
             IN  IF a[i] < b[i] THEN -1 ELSE 1

\* bytes.HasPrefix
BytesHasPrefix(s, prefix) ==
    /\ Len(prefix) <= Len(s)
    /\ \A i \in 1..Len(prefix) : s[i] = prefix[i]

\* ------------------------------------------------------------------ scalars
\* A Scalar wraps a bool, a string or a float64.  The record carries one field
\* per kind so that scalars of different kinds can be compared.
ScalarBool(x)   == [kind |-> "bool",    b |-> x,     s |-> <<>>, f |-> 0]
ScalarString(x) == [kind |-> "string",  b |-> FALSE, s |-> x,    f |-> 0]
ScalarFloat(x)  == [kind |-> "float64", b |-> FALSE, s |-> <<>>, f |-> x]
\* the zero Scalar{}: no value
ScalarNone      == [kind |-> "none",    b |-> FALSE, s |-> <<>>, f |-> 0]

RECURSIVE Log2(_)
Log2(n) == IF n <= 1 THEN 0 ELSE 1 + Log2(n \div 2)

RECURSIVE Pow2(_)
Pow2(e) == IF e = 0 THEN 1 ELSE 2 * Pow2(e - 1)

\* math.Float64bits in big-endian bytes, for the whole numbers |x| < 4096:
\* sign bit, 11 exponent bits (bias 1023), 52 mantissa bits.
Float64Bytes(x) ==
    LET a    == IF x < 0 THEN 0 - x ELSE x
        sign == IF x < 0 THEN 128 ELSE 0
        e    == Log2(a)
        m    == a - Pow2(e)
        ex   == 1023 + e
    IN  IF a = 0
        THEN <<sign, 0, 0, 0, 0, 0, 0, 0>>
        ELSE << sign + (ex \div 16),
                ((ex % 16) * 16) + ((m * 16) \div Pow2(e)),
                ((m * 4096) \div Pow2(e)) % 256,
                0, 0, 0, 0, 0 >>

\* Scalar.Bytes
Bytes(sc) ==
    CASE sc.kind = "bool"    -> IF sc.b THEN <<1>> ELSE <<0>>
      [] sc.kind = "string"  -> sc.s
      [] sc.kind = "float64" -> Float64Bytes(sc.f)
      [] OTHER               -> <<>>

\* ---------------------------------------------------------------- transform
\* strings.ToLower on ASCII bytes
LowerBytes(s) == [i \in 1..Len(s) |-> IF s[i] >= 65 /\ s[i] <= 90 THEN s[i] + 32 ELSE s[i]]

\* ToLower: strings are lowered, every other scalar is returned as is
ToLower(sc) == IF sc.kind = "string" THEN ScalarString(LowerBytes(sc.s)) ELSE sc

\* a Transform is named; "nil" is the absent transform
ApplyTransform(t, sc) == IF t = "ToLower" THEN ToLower(sc) ELSE sc

IsSpace(b) == b \in {9, 10, 11, 12, 13, 32}

\* WhiteSpaceTokenizer: the maximal runs of non-whitespace bytes (regexp \S+)
RECURSIVE SplitWords(_, _)
SplitWords(s, cur) ==
    IF s = <<>>
    THEN IF cur = <<>> THEN <<>> ELSE <<cur>>
    ELSE IF IsSpace(Head(s))
         THEN (IF cur = <<>> THEN <<>> ELSE <<cur>>) \o SplitWords(Tail(s), <<>>)
         ELSE SplitWords(Tail(s), Append(cur, Head(s)))

WhiteSpaceTokenizer(text) == SplitWords(text, <<>>)


\* ------------------------------------------------------------ JSON values
\* The values json.Unmarshal and the JSON-LD expansion produce: string, float64,
\* bool, nil, []interface{} and map[string]interface{}.
JString(x) == [t |-> "string",  sc |-> ScalarString(x)]
JFloat(x)  == [t |-> "float64", sc |-> ScalarFloat(x)]
JBool(x)   == [t |-> "bool",    sc |-> ScalarBool(x)]
JNil       == [t |-> "nil"]
JSlice(e)  == [t |-> "slice", e |-> e]
JMap(m)    == [t |-> "map",   m |-> m]

\* the scalar a panicking ScalarMustParse stands for
ScalarPanic == [kind |-> "panic", b |-> FALSE, s |-> <<>>, f |-> 0]

\* ScalarParse: bool, string and float64 are accepted, anything else is ErrInvalidValue
ScalarParse(value) ==
    IF value.t \in {"bool", "string", "float64"}
    THEN [err |-> "nil", sc |-> value.sc]
    ELSE [err |-> "ErrInvalidValue", sc |-> ScalarNone]

\* ScalarMustParse: panics where ScalarParse fails
ScalarMustParse(value) ==
    LET r == ScalarParse(value)
    IN  IF r.err # "nil" THEN ScalarPanic ELSE r.sc

\* ---------------------------------------------------------------- term paths
IsEmpty(tp) == Len(tp) = 0
\* TermPath.Head: the first term or ""
PathHead(tp) == IF Len(tp) = 0 THEN "" ELSE tp[1]
\* TermPath.Tail: the terms after the first or the empty path
PathTail(tp) == IF Len(tp) <= 1 THEN <<>> ELSE Tail(tp)
\* TermPath.Equals: same terms in the same order
PathEquals(tp, other) ==
    /\ Len(tp) = Len(other)
    /\ \A i \in 1..Len(tp) : tp[i] = other[i]

\* ------------------------------------------------------------ the documents
nameTermPath   == <<"name">>
urlTermPath    == <<"url">>
weightTermPath == <<"weight">>
childTermPath  == <<"children", "name">>

Value(x) == JMap("@value" :> x)

\* the tree of each document after json.Unmarshal and JSON-LD expansion
Expanded(d) ==
    CASE d = 1 -> JSlice(<< JMap( "name"     :> JSlice(<<Value(JString(<<97>>))>>)
                               @@ "url"      :> JSlice(<<Value(JString(<<118>>))>>)
                               @@ "weight"   :> JSlice(<<Value(JFloat(80))>>)
                               @@ "children" :> JSlice(<<JMap("name" :> JSlice(<<Value(JString(<<99>>))>>))>>) ) >>)
      [] d = 2 -> JSlice(<< JMap( "name"     :> JSlice(<<Value(JString(<<98>>))>>)
                               @@ "url"      :> JSlice(<<Value(JString(<<117>>))>>)
                               @@ "weight"   :> JSlice(<<Value(JFloat(90))>>) ) >>)
      [] d = 3 -> JSlice(<< JMap( "name"     :> JSlice(<<Value(JString(<<65, 32, 98>>))>>)
                               @@ "url"      :> JSlice(<<Value(JString(<<117>>))>>) ) >>)
      [] d = 4 -> JSlice(<< JMap( "name"     :> JSlice(<<Value(JString(<<97>>)), Value(JString(<<98>>))>>) ) >>)
      [] d = 6 -> JSlice(<< JMap( "name"     :> JSlice(<<Value(JString(<<65>>))>>)
                               @@ "weight"   :> JSlice(<<Value(JFloat(4))>>) ) >>)
      \* a node reference: "name": {"@id": "x"}
      [] d = 7 -> JSlice(<< JMap( "name" :> JSlice(<<JMap("@id" :> JString(<<120>>))>>) ) >>)
      \* an expanded @list: its elements are value objects
      [] d = 8 -> JSlice(<< JMap( "name" :> JSlice(<<JMap("@list" :>
                        JSlice(<<Value(JString(<<97>>)), Value(JString(<<98>>))>>))>>) ) >>)
      \* @list and @set of bare scalars
      [] d = 9 -> JSlice(<< JMap( "name" :> JSlice(<<JMap("@list" :>
                        JSlice(<<JString(<<97>>), JString(<<98>>)>>))>>)
                               @@ "url"  :> JSlice(<<JMap("@set" :>
                        JSlice(<<JString(<<117>>), JString(<<118>>)>>))>>) ) >>)
      \* a JSON literal: the @value is an object
      [] d = 10 -> JSlice(<< JMap( "name" :> JSlice(<<Value(JMap("k" :> JString(<<97>>)))>>) ) >>)
      \* an @list that is not a list
      [] d = 11 -> JSlice(<< JMap( "name" :> JSlice(<<JMap("@list" :> JString(<<97>>))>>) ) >>)
      \* a node with an @id of its own, two children, the second with two names
      [] d = 12 -> JSlice(<< JMap( "@id"      :> JString(<<120>>)
                               @@ "name"     :> JSlice(<<Value(JString(<<97>>))>>)
                               @@ "children" :> JSlice(<<
                                    JMap("name" :> JSlice(<<Value(JString(<<99>>))>>)),
                                    JMap("name" :> JSlice(<<Value(JString(<<100>>)),
                                                           Value(JString(<<101>>))>>)) >>) ) >>)
      \* two top-level nodes, the second inside a list of its own
      [] d = 13 -> JSlice(<< JMap( "name" :> JSlice(<<Value(JString(<<97>>))>>) ),
                            JSlice(<< JMap( "name" :> JSlice(<<Value(JString(<<98>>))>>) ) >>) >>)
      [] OTHER -> JSlice(<<>>)

\* documents 1 to 4 are JSON-LD objects, document 5 is bytes json.Unmarshal
\* rejects (Document{})
DocIds == 1..5

\* the documents handed to an Index directly: those above and document 6, whose
\* weight 4.0 has the bytes 0x40 0x10 0 0 0 0 0 0
IndexDocs == DocIds \cup {6}

\* the documents handed to ValuesAtPath directly: those above and documents 7
\* to 13, with the other forms JSON-LD expansion produces
ExtractDocs == IndexDocs \cup {7, 8, 9, 10, 11, 12, 13}

\* whether json.Unmarshal accepts the document's bytes
ValidJSON(d) == d # 5

\* defaultReferenceCreator: SHA-1 of the bytes, here an injective renumbering
\* whose order differs from the order of the documents
refMake(d) == CASE d = 1 -> 3 [] d = 2 -> 1 [] d = 3 -> 4 [] d = 4 -> 2 [] d = 5 -> 5 [] d = 6 -> 6
                [] OTHER -> 10 + d

\* ------------------------------------------------------- value extraction
RECURSIVE valuesFromSliceAtPath(_, _)
RECURSIVE valuesFromMapAtPath(_, _)

\* the scalars of a list of parsed elements (@list, @set)
RECURSIVE MustParseAll(_)
MustParseAll(e) ==
    IF Len(e) = 0 THEN <<>> ELSE <<ScalarMustParse(Head(e))>> \o MustParseAll(Tail(e))

\* valuesFromSliceAtPath that visits the first element of a list only
valuesFromSliceHead(expanded, termPath) ==
    IF Len(expanded) = 0
    THEN <<>>
    ELSE CASE Head(expanded).t = "slice" -> valuesFromSliceAtPath(Head(expanded).e, termPath)
           [] Head(expanded).t = "map"   -> valuesFromMapAtPath(Head(expanded).m, termPath)
           [] OTHER                      -> <<>>

valuesFromSliceAtPath(expanded, termPath) ==
    IF Len(expanded) = 0
    THEN <<>>
    ELSE LET sub  == Head(expanded)
             here == CASE sub.t = "slice" -> valuesFromSliceAtPath(sub.e, termPath)
                       [] sub.t = "map"   -> valuesFromMapAtPath(sub.m, termPath)
                       [] OTHER           -> <<>>
         IN  here \o valuesFromSliceAtPath(Tail(expanded), termPath)

valuesFromMapAtPath(expanded, termPath) ==
    LET has(k) == k \in DOMAIN expanded
        \* a type assertion to []interface{} panics on any other value
        cast(v) == IF v.t = "slice" THEN MustParseAll(v.e) ELSE <<ScalarPanic>>
        descend ==
            IF has(PathHead(termPath))
            THEN LET value == expanded[PathHead(termPath)]
                 IN  IF value.t = "slice"
                     THEN valuesFromSliceAtPath(value.e, PathTail(termPath))
                     ELSE <<>>
            ELSE <<>>
    IN  IF IsEmpty(termPath)
        THEN CASE has("@value") -> <<ScalarMustParse(expanded["@value"])>>
               [] has("@id")    -> <<ScalarMustParse(expanded["@id"])>>
               [] has("@list")  -> cast(expanded["@list"])
               [] has("@set")   -> cast(expanded["@set"])
               [] OTHER         -> descend
        ELSE descend

\* collection.ValuesAtPath: [err, values]; "json" is the error json.Unmarshal
\* returned, handed on as it is
ValuesAtPath(document, termPath) ==
    IF Len(termPath) = 0
    THEN [err |-> "nil", values |-> <<>>]
    ELSE IF ~ValidJSON(document)
         THEN [err |-> "json", values |-> <<>>]
         ELSE [err |-> "nil",
               values |-> valuesFromSliceAtPath(Expanded(document).e, termPath)]

\* ------------------------------------------------------------------ queries
\* A query part: Eq(path, value), Range(path, begin, end) or Prefix(path, value)
Eq(termPath, value) ==
    [kind |-> "eq", termPath |-> termPath, value |-> value,
     begin |-> ScalarNone, end |-> ScalarNone]
Range(termPath, begin, end) ==
    [kind |-> "range", termPath |-> termPath, value |-> ScalarNone,
     begin |-> begin, end |-> end]
Prefix(termPath, value) ==
    [kind |-> "prefix", termPath |-> termPath, value |-> value,
     begin |-> ScalarNone, end |-> ScalarNone]

\* QueryPart.Seek: the scalar for cursor.Seek
Seek(part) == IF part.kind = "range" THEN part.begin ELSE part.value

\* eqPart.Condition
eqPartCondition(part, key, transform) ==
    BytesCompare(key, Bytes(ApplyTransform(transform, part.value))) = 0

\* a range condition whose end bound is exclusive
rangePartConditionOpenEnd(part, key, transform) ==
    /\ BytesCompare(key, Bytes(ApplyTransform(transform, part.begin))) >= 0
    /\ BytesCompare(key, Bytes(ApplyTransform(transform, part.end))) < 0

\* rangePart.Condition: both bounds inclusive
rangePartCondition(part, key, transform) ==
    LET bTransformed == ApplyTransform(transform, part.begin)
        eTransformed == ApplyTransform(transform, part.end)
    IN  IF BytesCompare(key, Bytes(bTransformed)) < 0
        THEN FALSE
        ELSE BytesCompare(key, Bytes(eTransformed)) <= 0

\* prefixPart.Condition
prefixPartCondition(part, key, transform) ==
    BytesHasPrefix(key, Bytes(ApplyTransform(transform, part.value)))

\* QueryPart.Condition(key, transform); transform "nil" is the absent transform
Condition(part, key, transform) ==
    CASE part.kind = "eq"     -> eqPartCondition(part, key, transform)
      [] part.kind = "range"  -> rangePartCondition(part, key, transform)
      [] part.kind = "prefix" -> prefixPartCondition(part, key, transform)

\* a Query value: the nil Query, or a query with its parts
NilQuery   == [nil |-> TRUE,  parts |-> <<>>]
New(part)  == [nil |-> FALSE, parts |-> <<part>>]
\* query.And
And(q, part) == [nil |-> FALSE, parts |-> Append(q.parts, part)]
\* query.Parts
Parts(q) == q.parts

\* ------------------------------------------------------------ field indexers
NewFieldIndexer(termPath, transformer, tokenizer) ==
    [termPath |-> termPath, transformer |-> transformer, tokenizer |-> tokenizer]

\* Tokenize that never calls the tokenizer
TokenizeWhole(j, scalar) == <<scalar>>

\* fieldIndexer.Tokenize
Tokenize(j, scalar) ==
    IF j.tokenizer = "nil"
    THEN <<scalar>>
    ELSE IF scalar.kind = "string"
         THEN LET tokens == WhiteSpaceTokenizer(scalar.s)
              IN  [i \in 1..Len(tokens) |-> ScalarString(tokens[i])]
         ELSE <<scalar>>

\* fieldIndexer.Transform
Transform(j, value) ==
    IF j.transformer = "nil" THEN value ELSE ApplyTransform(j.transformer, value)

\* ---------------------------------------------------------------- key codec
\* pack: the parts' bytes joined by the delimiter byte; no byte is escaped
RECURSIVE ComposeKey(_)
ComposeKey(parts) ==
    IF Len(parts) = 0 THEN <<>>
    ELSE IF Len(parts) = 1 THEN parts[1]
    ELSE parts[1] \o <<KeyDelimiter>> \o ComposeKey(Tail(parts))

\* unpack: the byte strings between the delimiter bytes
RECURSIVE SplitFrom(_, _)
SplitFrom(key, cur) ==
    IF Len(key) = 0 THEN <<cur>>
    ELSE IF Head(key) = KeyDelimiter
         THEN <<cur>> \o SplitFrom(Tail(key), <<>>)
         ELSE SplitFrom(Tail(key), Append(cur, Head(key)))

Split(key) == SplitFrom(key, <<>>)

\* the i-th part of an unpacked key, empty when the key has fewer parts
KeyPart(key, i) == LET ps == Split(key) IN IF i <= Len(ps) THEN ps[i] ELSE <<>>

\* a set of byte strings in cursor order
RECURSIVE SortedKeys(_)
SortedKeys(S) ==
    IF S = {} THEN <<>>
    ELSE LET m == CHOOSE x \in S : \A y \in S : BytesCompare(x, y) <= 0
         IN  <<m>> \o SortedKeys(S \ {m})

\* a set of references in cursor order
RECURSIVE SortedRefs(_)
SortedRefs(S) ==
    IF S = {} THEN <<>>
    ELSE LET m == CHOOSE x \in S : \A y \in S : x <= y
         IN  <<m>> \o SortedRefs(S \ {m})

\* -------------------------------------------------------------------- index
\* An index: a name and its ordered field indexers.  Its bucket is named by it.
NewIndex(name, parts) == [name |-> name, indexParts |-> parts]
BucketName(index) == index.name

\* FieldIndexer keys of a document: each value at the path tokenized, then
\* transformed
RECURSIVE TokensOf(_, _)
TokensOf(j, values) ==
    IF Len(values) = 0 THEN <<>>
    ELSE LET toks == Tokenize(j, Head(values))
         IN  [i \in 1..Len(toks) |-> Transform(j, toks[i])] \o TokensOf(j, Tail(values))

Keys(j, document) ==
    LET r == ValuesAtPath(document, j.termPath)
    IN  IF r.err # "nil"
        THEN [err |-> r.err, keys |-> <<>>]
        ELSE [err |-> "nil", keys |-> TokensOf(j, r.values)]

\* the cross product of the parts' key lists; a part without a value gives
\* the one empty byte string
RECURSIVE KeyTuples(_, _)
KeyTuples(parts, document) ==
    IF Len(parts) = 0 THEN {<<>>}
    ELSE LET ks   == Keys(Head(parts), document).keys
             here == IF Len(ks) = 0 THEN {<<>>} ELSE {Bytes(ks[i]) : i \in 1..Len(ks)}
         IN  {<<h>> \o t : h \in here, t \in KeyTuples(Tail(parts), document)}

\* the first error Keys gives for a part of the index, "nil" when none
KeysErr(index, document) ==
    LET bad == {i \in 1..Len(index.indexParts) :
                   Keys(index.indexParts[i], document).err # "nil"}
    IN  IF bad = {} THEN "nil"
        ELSE Keys(index.indexParts[CHOOSE i \in bad : \A k \in bad : i <= k], document).err

\* the compound keys an index produces from a document
IndexKeys(index, document) ==
    {ComposeKey(t) : t \in KeyTuples(index.indexParts, document)}

\* the Index values callers hand to AddIndex; 1 and 4 share a name
Indexes ==
    << NewIndex("idxName",    <<NewFieldIndexer(nameTermPath, "nil", "nil")>>),
       NewIndex("idxNameUrl", <<NewFieldIndexer(nameTermPath, "nil", "nil"),
                                NewFieldIndexer(urlTermPath, "nil", "nil")>>),
       NewIndex("idxLower",   <<NewFieldIndexer(nameTermPath, "ToLower", "WhiteSpaceTokenizer")>>),
       NewIndex("idxName",    <<NewFieldIndexer(urlTermPath, "nil", "nil")>>) >>

IndexIds   == 1..Len(Indexes)
IndexNames == {Indexes[i].name : i \in IndexIds}

\* the Index values whose functions are called directly: those above, one of
\* three parts, and two whose part has a transform and no tokenizer
AllIndexes ==
    Indexes \o
    << NewIndex("idxNameUrlWeight", <<NewFieldIndexer(nameTermPath, "nil", "nil"),
                                      NewFieldIndexer(urlTermPath, "nil", "nil"),
                                      NewFieldIndexer(weightTermPath, "nil", "nil")>>),
       NewIndex("idxNameLower",     <<NewFieldIndexer(nameTermPath, "ToLower", "nil"),
                                      NewFieldIndexer(urlTermPath, "nil", "nil")>>),
       NewIndex("idxWeightLower",   <<NewFieldIndexer(weightTermPath, "ToLower", "nil")>>) >>

\* KeysErr and IndexKeys of every index and document, tabulated once
KeysOf ==
    [i \in 1..Len(AllIndexes) |->
        [d \in IndexDocs |-> [err  |-> KeysErr(AllIndexes[i], d),
                              keys |-> IndexKeys(AllIndexes[i], d)]]]

\* the position in AllIndexes of an index value
IndexId(index) == CHOOSE i \in 1..Len(AllIndexes) : AllIndexes[i] = index

EmptyBucket == [k \in {} |-> {}]

\* the bucket of an index inside the collection bucket, empty when absent
IndexBucket(indices, index) ==
    IF BucketName(index) \in DOMAIN indices THEN indices[BucketName(index)] ELSE EmptyBucket

\* Index.Add: ref is put in the nested bucket of every compound key
IndexAdd(indices, index, ref, document) ==
    LET b == IndexBucket(indices, index)
        newb(ks) == [k \in DOMAIN b \cup ks |->
                        (IF k \in DOMAIN b THEN b[k] ELSE {})
                            \cup (IF k \in ks THEN {ref} ELSE {})]
        \* r is what index.Keys gave for the document
        put(r) == IF r.err # "nil"
                  THEN [err |-> r.err, indices |-> indices]
                  ELSE [err |-> "nil",
                        indices |-> [n \in DOMAIN indices \cup {BucketName(index)} |->
                                        IF n = BucketName(index) THEN newb(r.keys)
                                        ELSE indices[n]]]
    IN  put(KeysOf[IndexId(index)][document])

\* Index.Delete that keeps a nested bucket it has emptied
IndexDeleteKeepEmpty(indices, index, ref, document) ==
    LET b == IndexBucket(indices, index)
        \* r is what index.Keys gave for the document
        cut(r) == IF r.err # "nil"
                  THEN [err |-> r.err, indices |-> indices]
                  ELSE [err |-> "nil",
                        indices |-> [n \in DOMAIN indices |->
                                        IF n = BucketName(index)
                                        THEN [k \in DOMAIN b |->
                                                 IF k \in r.keys THEN b[k] \ {ref} ELSE b[k]]
                                        ELSE indices[n]]]
    IN  IF BucketName(index) \notin DOMAIN indices
        THEN [err |-> "nil", indices |-> indices]
        ELSE cut(KeysOf[IndexId(index)][document])

\* Index.Delete: ref is removed from the nested bucket of every compound key, a
\* nested bucket left empty is deleted, a missing entry is ignored
IndexDelete(indices, index, ref, document) ==
    LET b == IndexBucket(indices, index)
        left(k, ks) == IF k \in ks THEN b[k] \ {ref} ELSE b[k]
        newb(ks) == [k \in {x \in DOMAIN b : x \notin ks \/ left(x, ks) # {}} |->
                        left(k, ks)]
        \* r is what index.Keys gave for the document
        cut(r) == IF r.err # "nil"
                  THEN [err |-> r.err, indices |-> indices]
                  ELSE [err |-> "nil",
                        indices |-> [n \in DOMAIN indices |->
                                        IF n = BucketName(index) THEN newb(r.keys)
                                        ELSE indices[n]]]
    IN  IF BucketName(index) \notin DOMAIN indices
        THEN [err |-> "nil", indices |-> indices]
        ELSE cut(KeysOf[IndexId(index)][document])

\* whether the query has a part on the field indexer's term path
HasPart(query, j) ==
    \E i \in 1..Len(query.parts) : PathEquals(query.parts[i].termPath, j.termPath)

\* the position of the first query part on the field indexer's term path
PartPos(query, j) ==
    CHOOSE i \in 1..Len(query.parts) :
        /\ PathEquals(query.parts[i].termPath, j.termPath)
        /\ \A k \in 1..(i - 1) : ~PathEquals(query.parts[k].termPath, j.termPath)

\* the number of leading index parts whose term path is in the query
RECURSIVE LeadingMatches(_, _)
LeadingMatches(parts, query) ==
    IF Len(parts) = 0 THEN 0
    ELSE IF HasPart(query, Head(parts))
         THEN 1 + LeadingMatches(Tail(parts), query)
         ELSE 0

\* IsMatch that counts every index part whose term path is in the query
IsMatchAnyPart(index, query) ==
    <<Cardinality({i \in 1..Len(index.indexParts) : HasPart(query, index.indexParts[i])}),
      Len(index.indexParts)>>

\* Index.IsMatch: the score m / n as the pair <<m, n>>
IsMatch(index, query) ==
    <<LeadingMatches(index.indexParts, query), Len(index.indexParts)>>

\* m1/n1 > m2/n2
ScoreGreater(a, b) == a[1] * b[2] > b[1] * a[2]
ScoreIsOne(a)  == a[1] = a[2] /\ a[2] > 0
ScoreIsZero(a) == a[1] = 0

\* the positions, in the query, of the parts placed on the leading index parts
SortedPos(index, query) ==
    [i \in 1..LeadingMatches(index.indexParts, query) |->
        PartPos(query, index.indexParts[i])]

\* the positions of the query parts that are not placed, in query order
RECURSIVE RestPos(_, _, _)
RestPos(placed, n, i) ==
    IF i > n THEN <<>>
    ELSE (IF i \in placed THEN <<>> ELSE <<i>>) \o RestPos(placed, n, i + 1)

MissingPos(index, query) ==
    LET sp == SortedPos(index, query)
    IN  RestPos({sp[i] : i \in 1..Len(sp)}, Len(query.parts), 1)

\* Sort that keeps the parts on the leading index parts in the order of the query
SortQueryOrder(index, query, includeMissing) ==
    LET sp == SortedPos(index, query)
        mp == MissingPos(index, query)
        on == {sp[i] : i \in 1..Len(sp)}
        at(ps) == [i \in 1..Len(ps) |-> query.parts[ps[i]]]
    IN  IF includeMissing
        THEN at(RestPos((1..Len(query.parts)) \ on, Len(query.parts), 1)) \o at(mp)
        ELSE at(RestPos((1..Len(query.parts)) \ on, Len(query.parts), 1))

\* QueryPartsOutsideIndex that returns the parts on no path of the index
QueryPartsOnNoPath(index, query) ==
    SelectSeq(query.parts,
              LAMBDA part : \A k \in 1..Len(index.indexParts) :
                               ~PathEquals(part.termPath, index.indexParts[k].termPath))

\* Index.Sort: the query parts in index order; with includeMissing the other
\* parts follow
Sort(index, query, includeMissing) ==
    LET sp == SortedPos(index, query)
        mp == MissingPos(index, query)
        at(ps) == [i \in 1..Len(ps) |-> query.parts[ps[i]]]
    IN  IF includeMissing THEN at(sp) \o at(mp) ELSE at(sp)

\* Index.QueryPartsOutsideIndex: the parts Sort does not place on the index
QueryPartsOutsideIndex(index, query) ==
    LET mp == MissingPos(index, query)
    IN  [i \in 1..Len(mp) |-> query.parts[mp[i]]]

\* whether a key passes the query parts of the index parts in `range`
KeyPasses(index, query, key, range) ==
    \A i \in range :
        HasPart(query, index.indexParts[i]) =>
            Condition(query.parts[PartPos(query, index.indexParts[i])],
                      KeyPart(key, i), index.indexParts[i].transformer)

\* the cursor loop: stop at the first key whose leading parts fail, skip a key
\* whose other parts fail, emit every reference of a key that passes
RECURSIVE CursorLoop(_, _, _, _, _)
CursorLoop(keys, bucket, index, query, k) ==
    IF Len(keys) = 0 THEN <<>>
    ELSE LET key  == Head(keys)
             n    == Len(index.indexParts)
             refs == SortedRefs(bucket[key])
         IN  IF ~KeyPasses(index, query, key, 1..k)
             THEN <<>>
             ELSE IF ~KeyPasses(index, query, key, (k + 1)..n)
             THEN CursorLoop(Tail(keys), bucket, index, query, k)
             ELSE [i \in 1..Len(refs) |-> [key |-> key, ref |-> refs[i]]]
                  \o CursorLoop(Tail(keys), bucket, index, query, k)

\* Index.Iterate: [err, emit], emit the (key, ref) pairs handed to the walker
IndexIterateKeys(indices, index, query) ==
    LET lead == Sort(index, query, FALSE)
        k    == Len(lead)
        seek == ComposeKey([i \in 1..k |->
                              Bytes(Transform(index.indexParts[i], Seek(lead[i])))])
        b    == IndexBucket(indices, index)
        from == SortedKeys({key \in DOMAIN b : BytesCompare(key, seek) >= 0})
    IN  IF k = 0
        THEN [err |-> "no matching keys", emit |-> <<>>]
        ELSE [err |-> "nil", emit |-> CursorLoop(from, b, index, query, k)]

\* ------------------------------------------------- the indices and queries
\* the query parts callers build
QueryParts ==
    { Eq(nameTermPath, ScalarString(<<97>>)),
      Eq(nameTermPath, ScalarString(<<65>>)),
      Range(nameTermPath, ScalarString(<<97>>), ScalarString(<<98>>)),
      Prefix(nameTermPath, ScalarString(<<97>>)),
      Eq(urlTermPath, ScalarString(<<117>>)) }

\* sequences of 1..n query parts on pairwise different term paths
RECURSIVE PartSeqs(_)
PartSeqs(n) ==
    IF n = 0 THEN {<<>>}
    ELSE LET shorter == PartSeqs(n - 1)
         IN  shorter \cup
             {Append(ps, p) : ps \in {x \in shorter : Len(x) = n - 1},
                              p \in QueryParts}

DistinctPaths(ps) ==
    \A i, j \in 1..Len(ps) : i # j => ~PathEquals(ps[i].termPath, ps[j].termPath)

Queries ==
    {[nil |-> FALSE, parts |-> ps] :
        ps \in {x \in PartSeqs(MaxQueryParts) : Len(x) > 0 /\ DistinctPaths(x)}}

\* sequences of 1..n elements of S
RECURSIVE SeqsUpTo(_, _)
SeqsUpTo(S, n) ==
    IF n = 0 THEN {<<>>}
    ELSE LET shorter == SeqsUpTo(S, n - 1)
         IN  shorter \cup {Append(x, e) : x \in {y \in shorter : Len(y) = n - 1}, e \in S}

\* ------------------------------------------------------------------- state
VARIABLES
    db,         \* the store: the collection bucket with its nested buckets
    IndexList,  \* collection.IndexList, the indices as positions in Indexes
    live,       \* history: the documents added and not deleted since
    handles,    \* history: the collection values created over the store
    writes,     \* history: the write calls through the values after the first
    pc,         \* "idle", "find" while a Find call is iterating, "done"
    ctx,        \* the context of the Find call: "background", "canceled", "deadline"
    call,       \* the Find call in flight
    last        \* the last call and what it returned; arg is the key of a Get,
                \* the number of indices an AddIndex registered or a DropIndex
                \* removed, the failAt of an iteration, the number of documents
                \* a failed Add had put when it failed; owned says that the
                \* bytes returned are the slices the bucket gave inside the
                \* transaction, which the store owns and may reuse once the
                \* transaction has ended
VARIABLES
    fn          \* the last call of a function of the package on values, with
                \* what it was given and what it returned

VARIABLES
    th          \* the two goroutines that call AddIndex and Add on the collection
                \* at the same time: where each is in its call, what it was
                \* given and what it returned

vars == <<db, IndexList, live, handles, writes, pc, ctx, call, last, fn, th>>

EmptyDB ==
    [collection |-> FALSE, documentBucket |-> FALSE,
     documents |-> [r \in {} |-> 0], indices |-> [n \in {} |-> EmptyBucket]]

NoCall ==
    [query |-> NilQuery, plan |-> "none", pending |-> <<>>, planErr |-> "nil",
     docs |-> <<>>, calls |-> 0, walkErr |-> "nil"]

Returned(op, err) ==
    [op |-> op, err |-> err, docs |-> <<>>, doc |-> 0, arg |-> 0,
     query |-> NilQuery, plan |-> "none", calls |-> 0,
     ctx0 |-> "background", emit |-> <<>>, owned |-> FALSE]

NoFn == [op |-> "none"]

NoThreads ==
    [addIndex |-> [pc |-> "none", index |-> 0, err |-> "nil"],
     add      |-> [pc |-> "none", doc |-> 0, err |-> "nil"]]

Init ==
    /\ db = EmptyDB
    /\ IndexList = <<>>
    /\ live = {}
    /\ handles = 1
    /\ writes = 0
    /\ pc = "idle"
    /\ ctx = "background"
    /\ call = NoCall
    /\ last = Returned("none", "nil")
    /\ fn = NoFn
    /\ th = NoThreads

\* the names of the indices in a list
ListNames(list) == {Indexes[list[i]].name : i \in 1..Len(list)}

\* ------------------------------------------------------------ transactions
\* bucket.Put
Put(f, k, v) == [x \in DOMAIN f \cup {k} |-> IF x = k THEN v ELSE f[x]]
\* bucket.Delete
Remove(f, k) == [x \in DOMAIN f \ {k} |-> f[x]]

\* Update that commits the writes of a closure that returned an error
UpdateNoRollback(old, r) == r.db

\* db.Update: the closure's writes are committed when it returns no error and
\* rolled back when it returns one
Update(old, r) == IF r.err = "nil" THEN r.db ELSE old

\* ------------------------------------------------------------ collection.add
\* for _, i := range c.IndexList { i.Add(bucket, ref, doc) }
RECURSIVE addToIndices(_, _, _, _)
addToIndices(indices, list, ref, doc) ==
    IF Len(list) = 0
    THEN [err |-> "nil", indices |-> indices]
    ELSE LET \* r is what i.Add returned
             rest(r) == IF r.err # "nil" THEN r
                        ELSE addToIndices(r.indices, Tail(list), ref, doc)
         IN  rest(IndexAdd(indices, Indexes[Head(list)], ref, doc))

\* addLoop that puts the documents and leaves the indices alone
RECURSIVE addLoopNoIndex(_, _, _)
addLoopNoIndex(tx, list, jsonSet) ==
    IF Len(jsonSet) = 0
    THEN [err |-> "nil", db |-> tx]
    ELSE addLoopNoIndex([tx EXCEPT !.documents = Put(tx.documents, refMake(Head(jsonSet)),
                                                     Head(jsonSet))],
                        list, Tail(jsonSet))

\* addLoop that refuses a document whose reference is in the document bucket
RECURSIVE addLoopNoOverwrite(_, _, _)
addLoopNoOverwrite(tx, list, jsonSet) ==
    IF Len(jsonSet) = 0
    THEN [err |-> "nil", db |-> tx]
    ELSE LET doc == Head(jsonSet)
             ref == refMake(doc)
             rest(r) == IF r.err # "nil"
                        THEN [err |-> r.err, db |-> tx]
                        ELSE addLoopNoOverwrite(
                                 [tx EXCEPT !.indices = r.indices,
                                            !.documents = Put(tx.documents, ref, doc)],
                                 list, Tail(jsonSet))
         IN  IF ref \in DOMAIN tx.documents
             THEN [err |-> "exists", db |-> tx]
             ELSE rest(addToIndices(tx.indices, list, ref, doc))

\* the loop over the documents of the set: indices first, then docBucket.Put
RECURSIVE addLoop(_, _, _)
addLoop(tx, list, jsonSet) ==
    IF Len(jsonSet) = 0
    THEN [err |-> "nil", db |-> tx]
    ELSE LET doc == Head(jsonSet)
             ref == refMake(doc)
             \* r is what the loop over the indices returned
             rest(r) == IF r.err # "nil"
                        THEN [err |-> r.err, db |-> tx]
                        ELSE addLoop([tx EXCEPT !.indices = r.indices,
                                                !.documents = Put(tx.documents, ref, doc)],
                                     list, Tail(jsonSet))
         IN  rest(addToIndices(tx.indices, list, ref, doc))

\* collection.add: [err, db]
add(tx, list, jsonSet) ==
    addLoop([tx EXCEPT !.collection = TRUE, !.documentBucket = TRUE], list, jsonSet)

\* --------------------------------------------------------- collection.delete
\* for _, i := range c.IndexList { i.Delete(bucket, ref, doc) }
RECURSIVE deleteFromIndices(_, _, _, _)
deleteFromIndices(indices, list, ref, doc) ==
    IF Len(list) = 0
    THEN [err |-> "nil", indices |-> indices]
    ELSE LET \* r is what i.Delete returned
             rest(r) == IF r.err # "nil" THEN r
                        ELSE deleteFromIndices(r.indices, Tail(list), ref, doc)
         IN  rest(IndexDelete(indices, Indexes[Head(list)], ref, doc))

\* delete that returns an error for a reference the document bucket lacks
deleteErrMissing(tx, list, doc) ==
    LET rest(r) == IF r.err # "nil" THEN [err |-> r.err, db |-> tx]
                   ELSE [err |-> "nil",
                         db |-> [tx EXCEPT !.documents = Remove(tx.documents, refMake(doc)),
                                           !.indices = r.indices]]
    IN  IF refMake(doc) \notin DOMAIN tx.documents
        THEN [err |-> "not found", db |-> tx]
        ELSE rest(deleteFromIndices(tx.indices, list, refMake(doc), doc))

\* delete that removes the document and leaves the indices as they are
deleteDocOnly(tx, list, doc) ==
    IF ~(tx.collection /\ tx.documentBucket) THEN [err |-> "nil", db |-> tx]
    ELSE [err |-> "nil",
          db |-> [tx EXCEPT !.documents = Remove(tx.documents, refMake(doc))]]

\* collection.delete: [err, db]
delete(tx, list, doc) ==
    LET ref == refMake(doc)
        \* r is what the loop over the indices returned
        rest(r) == IF r.err # "nil" THEN [err |-> r.err, db |-> tx]
                   ELSE [err |-> "nil",
                         db |-> [tx EXCEPT !.documents = Remove(tx.documents, ref),
                                           !.indices = r.indices]]
    IN  IF ~tx.collection THEN [err |-> "nil", db |-> tx]
        ELSE IF ~tx.documentBucket THEN [err |-> "nil", db |-> tx]
        ELSE rest(deleteFromIndices(tx.indices, list, ref, doc))

\* ------------------------------------------------------- collection.AddIndex
\* the back-fill: the cursor over the document bucket, index.Add for each
RECURSIVE backFill(_, _, _, _)
backFill(indices, index, refs, documents) ==
    IF Len(refs) = 0
    THEN [err |-> "nil", indices |-> indices]
    ELSE LET \* r is what index.Add returned
             rest(r) == IF r.err # "nil" THEN r
                        ELSE backFill(r.indices, index, Tail(refs), documents)
         IN  rest(IndexAdd(indices, index, Head(refs), documents[Head(refs)]))

\* the write transaction of AddIndex for one index: [err, db]
addIndexTx(tx, index) ==
    LET tx0 == [tx EXCEPT !.collection = TRUE]
        tx1 == [tx0 EXCEPT !.documentBucket = TRUE]
        \* r is what the back-fill returned
        rest(r) == IF r.err # "nil"
                   THEN [err |-> r.err, db |-> tx]
                   ELSE [err |-> "nil", db |-> [tx1 EXCEPT !.indices = r.indices]]
    IN  IF BucketName(index) \in DOMAIN tx0.indices
        THEN [err |-> "nil", db |-> tx0]
        ELSE rest(backFill(tx1.indices, index, SortedRefs(DOMAIN tx1.documents),
                           tx1.documents))

\* addIndexLoop without the look for the name in the list
RECURSIVE addIndexLoopNoCheck(_, _, _)
addIndexLoopNoCheck(d, list, indexes) ==
    IF Len(indexes) = 0
    THEN [err |-> "nil", db |-> d, list |-> list]
    ELSE LET rest(r) == IF r.err # "nil"
                        THEN [err |-> r.err, db |-> d, list |-> list]
                        ELSE addIndexLoopNoCheck(r.db, Append(list, Head(indexes)),
                                                 Tail(indexes))
         IN  rest(addIndexTx(d, Indexes[Head(indexes)]))

\* collection.AddIndex: [err, db, list]; an index whose name is in the list
\* ends the call
RECURSIVE addIndexLoop(_, _, _)
addIndexLoop(d, list, indexes) ==
    IF Len(indexes) = 0
    THEN [err |-> "nil", db |-> d, list |-> list]
    ELSE LET index == Indexes[Head(indexes)]
             \* r is what the write transaction returned
             rest(r) == IF r.err # "nil"
                        THEN [err |-> r.err, db |-> d, list |-> list]
                        ELSE addIndexLoop(r.db, Append(list, Head(indexes)), Tail(indexes))
         IN  IF index.name \in ListNames(list)
             THEN [err |-> "nil", db |-> d, list |-> list]
             ELSE rest(addIndexTx(d, index))

\* ------------------------------------------------------ collection.DropIndex
\* the indices of the list whose name differs, in order
RECURSIVE newIndices(_, _)
newIndices(list, name) ==
    IF Len(list) = 0 THEN <<>>
    ELSE (IF Indexes[Head(list)].name = name THEN <<>> ELSE <<Head(list)>>)
         \o newIndices(Tail(list), name)

\* dropIndex that takes the index off the list and leaves its bucket
dropIndexListOnly(tx, list, name) ==
    [db |-> [tx EXCEPT !.collection = TRUE], list |-> newIndices(list, name)]

\* collection.DropIndex: [db, list]; the bucket of every index of that name is
\* deleted, a bucket that does not exist is ignored
dropIndex(tx, list, name) ==
    LET tx0 == [tx EXCEPT !.collection = TRUE]
    IN  IF name \in ListNames(list)
        THEN [db |-> [tx0 EXCEPT !.indices =
                         [n \in DOMAIN tx0.indices \ {name} |-> tx0.indices[n]]],
              list |-> newIndices(list, name)]
        ELSE [db |-> tx0, list |-> newIndices(list, name)]

\* ------------------------------------------------------------ collection.Get
\* get by cursor.Seek without comparing the key found: the document under the
\* first key at or after the one asked for
getSeek(d, key) ==
    LET at == {r \in DOMAIN d.documents : r >= key}
    IN  IF at = {} THEN 0
        ELSE d.documents[CHOOSE r \in at : \A x \in at : r <= x]

\* the document under the key, 0 (nil) when there is none
get(d, key) ==
    IF ~(d.collection /\ d.documentBucket) THEN 0
    ELSE IF key \in DOMAIN d.documents THEN d.documents[key] ELSE 0

\* ------------------------------------------------------------- query plans
\* collection.findIndex: the first index of the list with the greatest score
\* above zero, 0 (nil) when every index scores zero
RECURSIVE findIndexLoop(_, _, _, _)
findIndexLoop(list, query, cIndex, cMatch) ==
    IF Len(list) = 0 THEN cIndex
    ELSE LET m == IsMatch(Indexes[Head(list)], query)
         IN  IF ScoreGreater(m, cMatch)
             THEN findIndexLoop(Tail(list), query, Head(list), m)
             ELSE findIndexLoop(Tail(list), query, cIndex, cMatch)

findIndex(list, query) ==
    IF query.nil THEN 0 ELSE findIndexLoop(list, query, 0, <<0, 1>>)

\* queryPlan that gives ErrNoIndex when no index matches
queryPlanNoFallback(list, query) ==
    IF query.nil
    THEN [err |-> "ErrNoQuery", plan |-> "none", index |-> 0]
    ELSE IF findIndex(list, query) = 0
    THEN [err |-> "ErrNoIndex", plan |-> "none", index |-> 0]
    ELSE [err |-> "nil", plan |-> "resultScan", index |-> findIndex(list, query)]

\* queryPlan that takes a nil query for a query without parts
queryPlanNilAsEmpty(list, query) ==
    IF findIndex(list, query) = 0
    THEN [err |-> "nil", plan |-> "fullTableScan", index |-> 0]
    ELSE [err |-> "nil", plan |-> "resultScan", index |-> findIndex(list, query)]

\* collection.queryPlan: [err, plan, index]
queryPlan(list, query) ==
    LET index == findIndex(list, query)
    IN  IF query.nil
        THEN [err |-> "ErrNoQuery", plan |-> "none", index |-> 0]
        ELSE IF index = 0
        THEN [err |-> "nil", plan |-> "fullTableScan", index |-> 0]
        ELSE [err |-> "nil", plan |-> "resultScan", index |-> index]

\* the term paths of the indices and queries
TermPaths == {nameTermPath, urlTermPath, weightTermPath, childTermPath}

\* ValuesAtPath of every document and term path, tabulated once
ValuesOf == [d \in DocIds |-> [tp \in TermPaths |-> ValuesAtPath(d, tp)]]

\* PartHolds that lets a document without a value at the part's path pass
PartHoldsOrMissing(doc, part) ==
    LET vs == ValuesOf[doc][part.termPath].values
    IN  Len(vs) = 0 \/ \E i \in 1..Len(vs) : Condition(part, Bytes(vs[i]), "nil")

\* whether some scalar of the document at the part's path passes the part's
\* condition, evaluated without a transform
PartHolds(doc, part) ==
    LET vs == ValuesOf[doc][part.termPath].values
    IN  \E i \in 1..Len(vs) : Condition(part, Bytes(vs[i]), "nil")

\* the first error the extraction gives for a part, "nil" when none
PartsErr(doc, parts) ==
    LET bad == {i \in 1..Len(parts) : ValuesOf[doc][parts[i].termPath].err # "nil"}
    IN  IF bad = {} THEN "nil"
        ELSE ValuesOf[doc][parts[CHOOSE i \in bad : \A k \in bad : i <= k].termPath].err

AllPartsHold(doc, parts) == \A i \in 1..Len(parts) : PartHolds(doc, parts[i])

\* fullTableScanQueryPlan.execute: the cursor over the document bucket;
\* [err, emit], emit the (ref, doc) pairs handed to the walker before err
RECURSIVE fullTableScanLoop(_, _, _)
fullTableScanLoop(refs, documents, query) ==
    IF Len(refs) = 0
    THEN [err |-> "nil", emit |-> <<>>]
    ELSE LET ref  == Head(refs)
             doc  == documents[ref]
             rest == fullTableScanLoop(Tail(refs), documents, query)
         IN  IF PartsErr(doc, query.parts) # "nil"
             THEN [err |-> PartsErr(doc, query.parts), emit |-> <<>>]
             ELSE IF AllPartsHold(doc, query.parts)
             THEN [rest EXCEPT !.emit = <<[ref |-> ref, doc |-> doc]>> \o @]
             ELSE rest

fullTableScan(d, query) ==
    fullTableScanLoop(SortedRefs(DOMAIN d.documents), d.documents, query)

\* resultScanQueryPlan.execute: the index is iterated, each reference's
\* document is loaded and tested against the parts outside the index
RECURSIVE resultScanLoop(_, _, _)
resultScanLoop(found, documents, residual) ==
    IF Len(found) = 0
    THEN [err |-> "nil", emit |-> <<>>]
    ELSE LET ref  == Head(found).ref
             rest == resultScanLoop(Tail(found), documents, residual)
         IN  IF ref \notin DOMAIN documents
             THEN rest
             ELSE IF PartsErr(documents[ref], residual) # "nil"
             THEN [err |-> PartsErr(documents[ref], residual), emit |-> <<>>]
             ELSE IF AllPartsHold(documents[ref], residual)
             THEN [rest EXCEPT !.emit = <<[ref |-> ref, doc |-> documents[ref]]>> \o @]
             ELSE rest

resultScan(d, index, query) ==
    LET it == IndexIterateKeys(d.indices, index, query)
    IN  IF it.err # "nil"
        THEN [err |-> it.err, emit |-> <<>>]
        ELSE resultScanLoop(it.emit, d.documents, QueryPartsOutsideIndex(index, query))

\* plan.execute of the plan queryPlan chose
execute(d, p, query) ==
    CASE p.plan = "fullTableScan" -> fullTableScan(d, query)
      [] p.plan = "resultScan"    -> resultScan(d, Indexes[p.index], query)
      [] OTHER                    -> [err |-> p.err, emit |-> <<>>]

\* ---------------------------------------------------------- collection.Find
\* ctx.Err()
ctxErr(cx) ==
    CASE cx = "canceled" -> "context.Canceled"
      [] cx = "deadline" -> "context.DeadlineExceeded"
      [] OTHER           -> "nil"

\* the walker of Find, invoked on the next (ref, doc) of the plan: it returns
\* ctx.Err() when the context is done, and appends the document otherwise
walker(c, cx) ==
    IF ctxErr(cx) # "nil"
    THEN [c EXCEPT !.calls = @ + 1, !.walkErr = ctxErr(cx)]
    ELSE [c EXCEPT !.calls = @ + 1, !.docs = Append(@, Head(c.pending).doc),
                   !.pending = Tail(@)]

\* plan.execute hands the next pair to the walker unless the walker has
\* returned an error
planContinues(c) == c.walkErr = "nil" /\ Len(c.pending) > 0

\* the error Iterate returns: the walker's, else the plan's
iterateErr(c) == IF c.walkErr # "nil" THEN c.walkErr ELSE c.planErr

\* findResult that returns the documents collected so far with the error
findResultPartial(c) == [err |-> iterateErr(c), docs |-> c.docs]

\* what Find returns: (nil, err) on an error of Iterate, (docs, nil) otherwise
findResult(c) ==
    IF iterateErr(c) # "nil"
    THEN [err |-> iterateErr(c), docs |-> <<>>]
    ELSE [err |-> "nil", docs |-> c.docs]

\* ------------------------------------------------------------------ actions
Contexts == {"background", "canceled", "deadline"}

\* the walker of Iterate and the fn of IndexIterate return an error at their
\* n-th invocation, n = 0 for never
FailAt == {0, 1, 2}

\* the keys handed to Get: the references of the documents and an unknown one
GetKeys == {refMake(d) : d \in DocIds} \cup {9}

\* the sets of documents handed to Add and of indices handed to AddIndex
AddSets   == SeqsUpTo(DocIds, MaxAddSet) \ {<<>>}
IndexSets == SeqsUpTo(IndexIds, MaxAddIndex) \ {<<>>}
DropNames == IndexNames \cup {"unknown"}
AllQueries == Queries \cup {NilQuery}

\* the write calls through the first collection value are followed without
\* limit, those through a later one up to MaxWrites
CanWrite == handles = 1 \/ writes < MaxWrites
Wrote    == writes' = IF handles = 1 THEN 0 ELSE writes + 1

\* a collection value is created over the store the earlier ones wrote: its
\* index list is empty, the buckets are what they were
createCollection ==
    /\ pc = "idle"
    /\ handles < MaxHandles
    /\ handles' = handles + 1
    /\ IndexList' = <<>>
    /\ last' = Returned("createCollection", "nil")
    /\ UNCHANGED <<th, fn, db, live, writes, pc, ctx, call>>

Add(jsonSet) ==
    /\ pc = "idle"
    /\ CanWrite
    /\ \E r \in {add(db, IndexList, jsonSet)} :
         /\ db' = Update(db, r)
         /\ live' = IF r.err = "nil"
                    THEN live \cup {jsonSet[i] : i \in 1..Len(jsonSet)}
                    ELSE live
         /\ last' = [Returned("Add", r.err) EXCEPT
                         !.arg = IF r.err = "nil" THEN 0
                                 ELSE Cardinality(DOMAIN r.db.documents \ DOMAIN db.documents)]
    /\ UNCHANGED <<th, fn, IndexList, handles, pc, ctx, call>>
    /\ Wrote

Delete(doc) ==
    /\ pc = "idle"
    /\ CanWrite
    /\ \E r \in {delete(db, IndexList, doc)} :
         /\ db' = Update(db, r)
         /\ live' = IF r.err = "nil" THEN live \ {doc} ELSE live
         /\ last' = Returned("Delete", r.err)
    /\ UNCHANGED <<th, fn, IndexList, handles, pc, ctx, call>>
    /\ Wrote

AddIndex(indexes) ==
    /\ pc = "idle"
    /\ CanWrite
    /\ \E r \in {addIndexLoop(db, IndexList, indexes)} :
         /\ db' = r.db
         /\ IndexList' = r.list
         /\ last' = [Returned("AddIndex", r.err) EXCEPT
                         !.arg = Len(r.list) - Len(IndexList)]
    /\ UNCHANGED <<th, fn, live, handles, pc, ctx, call>>
    /\ Wrote

DropIndex(name) ==
    /\ pc = "idle"
    /\ CanWrite
    /\ \E r \in {dropIndex(db, IndexList, name)} :
         /\ db' = r.db
         /\ IndexList' = r.list
         /\ last' = [Returned("DropIndex", "nil") EXCEPT
                         !.arg = Len(IndexList) - Len(r.list)]
    /\ UNCHANGED <<th, fn, live, handles, pc, ctx, call>>
    /\ Wrote

\* A read call (Get, Find, Iterate, IndexIterate) leaves the store and the
\* index list as they are, so the calls that could follow it start from the
\* state before it: a run is followed up to the return of its first read call.
Get(key) ==
    /\ pc = "idle"
    \* data = bucket.Get(key) is returned as it is after View has returned
    /\ last' = [Returned("Get", "nil") EXCEPT !.arg = key, !.doc = get(db, key),
                                              !.owned = get(db, key) # 0]
    /\ pc' = "done"
    /\ UNCHANGED <<th, fn, db, IndexList, live, handles, writes, ctx, call>>

\* Find is entered with a context that is live, cancelled or past its
\* deadline: the plan is chosen and run on the snapshot of the read transaction
FindBegin(query) ==
    /\ pc = "idle"
    /\ \E p \in {queryPlan(IndexList, query)} :
         \E x \in {execute(db, p, query)} :
            call' = [NoCall EXCEPT !.query = query, !.plan = p.plan,
                                   !.pending = x.emit, !.planErr = x.err]
    /\ ctx' \in Contexts
    /\ pc' = "find"
    /\ last' = [Returned("Find", "pending") EXCEPT !.query = query, !.ctx0 = ctx']
    /\ UNCHANGED <<th, fn, db, IndexList, live, handles, writes>>

\* the caller cancels the context, or its deadline passes, during the call
Cancel ==
    /\ pc = "find"
    /\ ctx = "background"
    /\ ctx' \in {"canceled", "deadline"}
    /\ UNCHANGED <<th, fn, db, IndexList, live, handles, writes, pc, call, last>>

FindWalk ==
    /\ pc = "find"
    /\ planContinues(call)
    /\ call' = walker(call, ctx)
    /\ UNCHANGED <<th, fn, db, IndexList, live, handles, writes, pc, ctx, last>>

FindReturn ==
    /\ pc = "find"
    /\ ~planContinues(call)
    /\ last' = [last EXCEPT !.err = findResult(call).err,
                            !.docs = findResult(call).docs,
                            !.plan = call.plan, !.calls = call.calls,
                            \* docs = append(docs, value): the slices themselves
                            !.owned = findResult(call).docs # <<>>]
    /\ pc' = "done"
    /\ UNCHANGED <<th, fn, db, IndexList, live, handles, writes, ctx, call>>

\* executeFn that goes on after the error of the walker and returns the plan's
executeFnIgnoringError(x, failAt) ==
    [err |-> x.err, calls |-> Len(x.emit), emit |-> x.emit]

\* plan.execute(fn) with a fn that returns an error at its failAt-th
\* invocation: x is what the plan has to hand over; the first error of fn ends
\* the iteration and is what execute returns
executeFn(x, failAt) ==
    IF failAt \in 1..Len(x.emit)
    THEN [err |-> "b00m", calls |-> failAt, emit |-> SubSeq(x.emit, 1, failAt)]
    ELSE [err |-> x.err, calls |-> Len(x.emit), emit |-> x.emit]

\* collection.Iterate with a walker that fails at its failAt-th invocation
Iterate(query) ==
    /\ pc = "idle"
    /\ \E p \in {queryPlan(IndexList, query)} :
         \E failAt \in FailAt :
            \E w \in {executeFn(execute(db, p, query), failAt)} :
               last' = [Returned("Iterate", w.err) EXCEPT
                            !.query = query, !.plan = p.plan, !.arg = failAt,
                            !.calls = w.calls]
    /\ pc' = "done"
    /\ UNCHANGED <<th, fn, db, IndexList, live, handles, writes, ctx, call>>

\* what IndexIterate runs: ErrNoIndex without an index, else the index scan
indexIterate(d, list, query) ==
    LET index == findIndex(list, query)
    IN  IF index = 0
        THEN [err |-> "ErrNoIndex", plan |-> "none", emit |-> <<>>]
        ELSE [err  |-> IndexIterateKeys(d.indices, Indexes[index], query).err,
              plan |-> "indexScan",
              emit |-> IndexIterateKeys(d.indices, Indexes[index], query).emit]

\* collection.IndexIterate with a fn that fails at its failAt-th invocation
IndexIterate(query) ==
    /\ pc = "idle"
    /\ \E x \in {indexIterate(db, IndexList, query)} :
         \E failAt \in FailAt :
            \E w \in {executeFn(x, failAt)} :
               last' = [Returned("IndexIterate", w.err) EXCEPT
                            !.query = query, !.arg = failAt, !.plan = x.plan,
                            !.calls = w.calls, !.emit = w.emit]
    /\ pc' = "done"
    /\ UNCHANGED <<th, fn, db, IndexList, live, handles, writes, ctx, call>>

Next ==
    \/ \E jsonSet \in AddSets : Add(jsonSet)
    \/ \E doc \in DocIds : Delete(doc)
    \/ \E indexes \in IndexSets : AddIndex(indexes)
    \/ \E name \in DropNames : DropIndex(name)
    \/ \E key \in GetKeys : Get(key)
    \/ \E query \in AllQueries : FindBegin(query)
    \/ Cancel
    \/ FindWalk
    \/ FindReturn
    \/ \E query \in AllQueries : Iterate(query)
    \/ \E query \in AllQueries : IndexIterate(query)

Spec == Init /\ [][Next]_vars

\* ------------------------------------- AddIndex and Add in two goroutines
\* One goroutine calls c.AddIndex(index), another c.Add([]Document{doc}), on
\* the same collection value.  db.Update runs one closure at a time; the loop
\* over c.IndexList and the append to it are outside the transaction.
GoAddIndexAndAdd(i, d) ==
    /\ pc = "idle"
    /\ pc' = "threads"
    /\ th' = [addIndex |-> [pc |-> "check", index |-> i, err |-> "nil"],
              add      |-> [pc |-> "update", doc |-> d, err |-> "nil"]]
    /\ UNCHANGED <<fn, db, IndexList, live, handles, writes, ctx, call, last>>

\* AddIndex, the loop over c.IndexList: a name that is present ends the call
AddIndexCheckName ==
    /\ pc = "threads"
    /\ th.addIndex.pc = "check"
    /\ th' = [th EXCEPT !.addIndex.pc =
                  IF Indexes[th.addIndex.index].name \in ListNames(IndexList)
                  THEN "done" ELSE "update"]
    /\ UNCHANGED <<fn, db, IndexList, live, handles, writes, pc, ctx, call, last>>

\* AddIndex, the db.Update with the back-fill
AddIndexUpdate ==
    /\ pc = "threads"
    /\ th.addIndex.pc = "update"
    /\ \E r \in {addIndexTx(db, Indexes[th.addIndex.index])} :
         /\ db' = r.db
         /\ th' = [th EXCEPT !.addIndex.err = r.err,
                             !.addIndex.pc = IF r.err # "nil" THEN "done" ELSE "append"]
    /\ UNCHANGED <<fn, IndexList, live, handles, writes, pc, ctx, call, last>>

\* AddIndex, c.IndexList = append(c.IndexList, index), after Update returned
AddIndexAppend ==
    /\ pc = "threads"
    /\ th.addIndex.pc = "append"
    /\ IndexList' = Append(IndexList, th.addIndex.index)
    /\ th' = [th EXCEPT !.addIndex.pc = "done"]
    /\ UNCHANGED <<fn, db, live, handles, writes, pc, ctx, call, last>>

\* Add, the db.Update whose closure ranges over c.IndexList as it is then
AddUpdate ==
    /\ pc = "threads"
    /\ th.add.pc = "update"
    /\ \E r \in {add(db, IndexList, <<th.add.doc>>)} :
         /\ db' = Update(db, r)
         /\ live' = IF r.err = "nil" THEN live \cup {th.add.doc} ELSE live
         /\ th' = [th EXCEPT !.add.err = r.err, !.add.pc = "done"]
    /\ UNCHANGED <<fn, IndexList, handles, writes, pc, ctx, call, last>>

\* the calls that fill the collection, then the two goroutines
NextThreads ==
    \/ \E jsonSet \in AddSets : Add(jsonSet)
    \/ \E doc \in DocIds : Delete(doc)
    \/ \E indexes \in IndexSets : AddIndex(indexes)
    \/ \E name \in DropNames : DropIndex(name)
    \/ \E i \in IndexIds : \E d \in DocIds : GoAddIndexAndAdd(i, d)
    \/ AddIndexCheckName
    \/ AddIndexUpdate
    \/ AddIndexAppend
    \/ AddUpdate

SpecThreads == Init /\ [][NextThreads]_vars

\* ------------------------------------------------------ calls on key values
\* the bytes of key parts: one below the delimiter, the delimiter, one above
KeyBytes == {1, KeyDelimiter, 97}

\* the key parts and the tuples of parts handed to ComposeKey
KeyPartsIn  == SeqsUpTo(KeyBytes, MaxPartLen)
KeyTuplesIn == SeqsUpTo(KeyPartsIn, MaxKeyParts) \ {<<>>}

\* ComposeKey on the parts of a tuple
CallComposeKey(parts) ==
    /\ fn.op = "none"
    /\ fn' = [op |-> "ComposeKey", in |-> parts, out |-> ComposeKey(parts)]
    /\ UNCHANGED <<db, IndexList, live, handles, writes, pc, ctx, call, last, th>>

\* Split on the key ComposeKey returned
CallSplit ==
    /\ fn.op = "ComposeKey"
    /\ fn' = [op |-> "Split", in |-> fn.out, out |-> Split(fn.out), parts |-> fn.in]
    /\ UNCHANGED <<db, IndexList, live, handles, writes, pc, ctx, call, last, th>>

\* the order the cursor of the index bucket gives the key ComposeKey returned
\* and the key of another tuple of as many parts: bytes.Compare on the keys
CallKeyCompare(other) ==
    /\ fn.op = "ComposeKey"
    /\ Len(other) = Len(fn.in)
    /\ fn' = [op |-> "KeyCompare", in |-> <<fn.in, other>>,
              out |-> BytesCompare(fn.out, ComposeKey(other))]
    /\ UNCHANGED <<db, IndexList, live, handles, writes, pc, ctx, call, last, th>>

\* the calls of the key codec
NextKey ==
    \/ \E parts \in KeyTuplesIn : CallComposeKey(parts)
    \/ CallSplit
    \/ \E other \in KeyTuplesIn : CallKeyCompare(other)

SpecKey == Init /\ [][NextKey]_vars

\* the queries handed to IsMatch: up to MaxQueryParts Eq parts on any paths,
\* in any order
MatchQueries ==
    {[nil |-> FALSE, parts |-> [k \in 1..Len(tps) |-> Eq(tps[k], ScalarString(<<97>>))]] :
        tps \in SeqsUpTo(TermPaths, MaxQueryParts) \ {<<>>}}

\* Index.IsMatch on an index and a query
CallIsMatch(i, query) ==
    /\ fn.op = "none"
    /\ fn' = [op |-> "IsMatch", in |-> <<i, query>>, out |-> IsMatch(AllIndexes[i], query)]
    /\ UNCHANGED <<db, IndexList, live, handles, writes, pc, ctx, call, last, th>>

\* the queries handed to Index.Iterate: those of the collection and Eq parts on
\* other values
IterateQueries ==
    Queries \cup { New(Eq(nameTermPath, ScalarString(<<65, 32, 98>>))),
                   New(Eq(weightTermPath, ScalarFloat(4))),
                   New(Eq(weightTermPath, ScalarFloat(80))) }

\* Index.Add of a document to the bucket the earlier direct calls filled
CallIndexAdd(i, d) ==
    /\ fn.op \in {"none", "IndexAdd"}
    /\ fn.op = "IndexAdd" =>
           fn.index = i /\ fn.out = "nil" /\ Cardinality(fn.docs) < MaxIndexAdds
    /\ LET before == IF fn.op = "none" THEN EmptyDB.indices ELSE fn.indices
           docs   == IF fn.op = "none" THEN {} ELSE fn.docs
       IN  \E r \in {IndexAdd(before, AllIndexes[i], refMake(d), d)} :
               fn' = [op |-> "IndexAdd", index |-> i, in |-> d, before |-> before,
                      out |-> r.err, indices |-> r.indices,
                      docs |-> IF r.err = "nil" THEN docs \cup {d} ELSE docs]
    /\ UNCHANGED <<db, IndexList, live, handles, writes, pc, ctx, call, last, th>>

\* Index.Delete of a document from the bucket the direct calls of Index.Add
\* filled: the document added last, or another one
CallIndexDelete(d) ==
    /\ fn.op = "IndexAdd"
    /\ fn.out = "nil"
    /\ \E r \in {IndexDelete(fn.indices, AllIndexes[fn.index], refMake(d), d)} :
           fn' = [op |-> "IndexDelete", index |-> fn.index, in |-> d,
                  added |-> fn.in, start |-> fn.before, before |-> fn.indices,
                  out |-> r.err, indices |-> r.indices,
                  docs |-> IF r.err = "nil" THEN fn.docs \ {d} ELSE fn.docs]
    /\ UNCHANGED <<db, IndexList, live, handles, writes, pc, ctx, call, last, th>>

\* Index.Iterate of a query over the bucket the direct calls of Index.Add filled
CallIndexIterate(query) ==
    /\ fn.op = "IndexAdd"
    /\ fn.out = "nil"
    /\ fn' = [op |-> "IndexIterate", index |-> fn.index, in |-> query,
              indices |-> fn.indices, docs |-> fn.docs,
              out |-> IndexIterateKeys(fn.indices, AllIndexes[fn.index], query)]
    /\ UNCHANGED <<db, IndexList, live, handles, writes, pc, ctx, call, last, th>>

\* the term paths handed to ValuesAtPath: those of the indices, the empty
\* path, a keyword that maps to a string, and a path that goes on behind a value
ExtractPaths == TermPaths \cup {<<>>, <<"@id">>, <<"name", "k">>, <<"children">>}

\* collection.ValuesAtPath on a document and a term path
CallValuesAtPath(d, termPath) ==
    /\ fn.op = "none"
    /\ fn' = [op |-> "ValuesAtPath", in |-> <<d, termPath>>,
              out |-> ValuesAtPath(d, termPath)]
    /\ UNCHANGED <<db, IndexList, live, handles, writes, pc, ctx, call, last, th>>

\* the queries handed to Sort and QueryPartsOutsideIndex
SortQueries == MatchQueries \cup Queries

\* Index.Sort on an index and a query, with and without the missing parts
CallSort(i, query, includeMissing) ==
    /\ fn.op = "none"
    /\ fn' = [op |-> "Sort", in |-> <<i, query, includeMissing>>,
              out |-> Sort(AllIndexes[i], query, includeMissing)]
    /\ UNCHANGED <<db, IndexList, live, handles, writes, pc, ctx, call, last, th>>

\* Index.QueryPartsOutsideIndex on an index and a query
CallQueryPartsOutsideIndex(i, query) ==
    /\ fn.op = "none"
    /\ fn' = [op |-> "QueryPartsOutsideIndex", in |-> <<i, query>>,
              out |-> QueryPartsOutsideIndex(AllIndexes[i], query)]
    /\ UNCHANGED <<db, IndexList, live, handles, writes, pc, ctx, call, last, th>>

\* the scalars of the query parts handed to Condition, the parts and the keys
ConditionScalars ==
    {ScalarString(x) : x \in {<<97>>, <<65>>, <<98>>, <<66>>, <<97, 98>>}}

ConditionParts ==
    {Range(nameTermPath, b, e) : b \in ConditionScalars, e \in ConditionScalars}
        \cup {Eq(nameTermPath, v) : v \in ConditionScalars}
        \cup {Prefix(nameTermPath, v) : v \in ConditionScalars}

ConditionKeys == SeqsUpTo({65, 66, 97, 98}, MaxPartLen)

\* QueryPart.Condition on a key part, with the transform of the index part
CallCondition(part, key, transform) ==
    /\ fn.op = "none"
    /\ fn' = [op |-> "Condition", in |-> <<part, key, transform>>,
              out |-> Condition(part, key, transform)]
    /\ UNCHANGED <<db, IndexList, live, handles, writes, pc, ctx, call, last, th>>

\* the direct calls of the functions of an Index and of a query part
NextFn ==
    \/ \E i \in 1..Len(AllIndexes) : \E query \in MatchQueries : CallIsMatch(i, query)
    \/ \E i \in 1..Len(AllIndexes) : \E d \in IndexDocs : CallIndexAdd(i, d)
    \/ \E query \in IterateQueries : CallIndexIterate(query)
    \/ \E d \in IndexDocs : CallIndexDelete(d)
    \/ \E d \in ExtractDocs : \E termPath \in ExtractPaths : CallValuesAtPath(d, termPath)
    \/ \E i \in 1..Len(AllIndexes) : \E query \in SortQueries :
           \E includeMissing \in BOOLEAN : CallSort(i, query, includeMissing)
    \/ \E i \in 1..Len(AllIndexes) : \E query \in SortQueries :
           CallQueryPartsOutsideIndex(i, query)
    \/ \E part \in ConditionParts : \E key \in ConditionKeys :
           \E transform \in {"nil", "ToLower"} : CallCondition(part, key, transform)

SpecFn == Init /\ [][NextFn]_vars

\* ---------------------------------------------------- query values as slices
\* A query value holds its parts as a Go slice: a backing array, a length and
\* a capacity. The backing arrays are the sequences of `arrays`, each as long
\* as its capacity; a slot behind every slice's length holds ZeroPart.
ZeroPart == [kind |-> "none", termPath |-> <<>>, value |-> ScalarNone,
             begin |-> ScalarNone, end |-> ScalarNone]

\* the parts handed to New and And
AndParts == { Eq(nameTermPath, ScalarString(<<97>>)),
              Eq(urlTermPath, ScalarString(<<117>>)) }

\* the heap of the query values built so far: [arrays, queries]
QueryHeap(f) ==
    IF f.op \in {"New", "And"}
    THEN [arrays |-> f.arrays, queries |-> f.queries]
    ELSE [arrays |-> <<>>, queries |-> <<>>]

\* the built-in append(s, x) on the slice s of the heap's arrays: within the
\* capacity x is written behind the length into the same array, otherwise a
\* new array of capacity newcap gets the elements and x; [arrays, slice]
append(arrays, s, x, newcap) ==
    IF s.len < s.cap
    THEN [arrays |-> [arrays EXCEPT ![s.array][s.len + 1] = x],
          slice  |-> [s EXCEPT !.len = @ + 1]]
    ELSE [arrays |-> Append(arrays,
                            [k \in 1..newcap |->
                                IF k <= s.len THEN arrays[s.array][k]
                                ELSE IF k = s.len + 1 THEN x ELSE ZeroPart]),
          slice  |-> [array |-> Len(arrays) + 1, len |-> s.len + 1, cap |-> newcap]]

\* the capacities the runtime may give the array append allocates: at least
\* the new length, the gc runtime doubles a small slice
NewCaps(s) == {c \in (s.len + 1)..(2 * s.cap) : c = s.len + 1 \/ c = 2 * s.cap}

\* query.Parts on a query value of the heap
queryParts(arrays, q) == SubSeq(arrays[q.array], 1, q.len)

\* New(part): the slice literal []QueryPart{part} has length and capacity 1
CallNew(part) ==
    /\ fn.op \in {"none", "New", "And"}
    /\ Len(QueryHeap(fn).queries) < MaxQueryValues
    /\ LET h == QueryHeap(fn)
           q == [array |-> Len(h.arrays) + 1, len |-> 1, cap |-> 1]
       IN  fn' = [op |-> "New", in |-> part, out |-> Len(h.queries) + 1,
                  arrays |-> Append(h.arrays, <<part>>),
                  queries |-> Append(h.queries, q)]
    /\ UNCHANGED <<db, IndexList, live, handles, writes, pc, ctx, call, last, th>>

\* q.And(part) on the n-th query value built: the receiver is a copy of the
\* slice header, append works on the copy, and the copy is returned
CallAnd(n, part) ==
    /\ fn.op \in {"New", "And"}
    /\ n \in 1..Len(fn.queries)
    /\ Len(fn.queries) < MaxQueryValues
    /\ \E newcap \in NewCaps(fn.queries[n]) :
          \E r \in {append(fn.arrays, fn.queries[n], part, newcap)} :
             fn' = [op |-> "And", in |-> <<n, part>>, out |-> Len(fn.queries) + 1,
                    arrays |-> r.arrays,
                    queries |-> Append(fn.queries, r.slice)]
    /\ UNCHANGED <<db, IndexList, live, handles, writes, pc, ctx, call, last, th>>

\* the query values a caller builds
NextQuery ==
    \/ \E part \in AndParts : CallNew(part)
    \/ \E n \in 1..MaxQueryValues : \E part \in AndParts : CallAnd(n, part)

SpecQuery == Init /\ [][NextQuery]_vars

\* the store under the write calls of successive collection values, each call
\* on one document or one index
NextStore ==
    \/ createCollection
    \/ \E doc \in DocIds : Add(<<doc>>)
    \/ \E doc \in DocIds : Delete(doc)
    \/ \E i \in IndexIds : AddIndex(<<i>>)
    \/ \E name \in DropNames : DropIndex(name)
    \/ \E key \in GetKeys : Get(key)

SpecStore == Init /\ [][NextStore]_vars

\* ------------------------------------------------------------------- claims
\* the indices of a list
Registered(list) == {list[k] : k \in 1..Len(list)}

\* the documents of the document bucket
Stored(d) == {d.documents[r] : r \in DOMAIN d.documents}

\* the entry (key, ref) is in the bucket of that name
HasEntry(indices, name, key, ref) ==
    /\ name \in DOMAIN indices
    /\ key \in DOMAIN indices[name]
    /\ ref \in indices[name][key]

\* the references a bucket holds
RefsOf(indices, name) ==
    IF name \in DOMAIN indices
    THEN UNION {indices[name][k] : k \in DOMAIN indices[name]}
    ELSE {}

\* every key index i produces from the document under r has its entry
Indexed(d, i, r) ==
    \A key \in KeysOf[i][d.documents[r]].keys :
        HasEntry(d.indices, BucketName(Indexes[i]), key, r)

\* some scalar of the document at the path of each part passes the part
Satisfies(doc, query) ==
    \A k \in 1..Len(query.parts) :
        \E v \in {ValuesOf[doc][query.parts[k].termPath].values[n] :
                     n \in 1..Len(ValuesOf[doc][query.parts[k].termPath].values)} :
            Condition(query.parts[k], Bytes(v), "nil")

\* every index of the list scores zero on the query
ZeroScores(list, query) ==
    \A i \in Registered(list) : ScoreIsZero(IsMatch(Indexes[i], query))

\* a Find that ran to its return under a context that stayed live
FindReturnedLive ==
    /\ pc = "done"
    /\ last.op = "Find"
    /\ last.ctx0 = "background"
    /\ ctx = "background"

\* C1: when an index of the list scores 1.0 on the query, Find returns exactly
\* the stored documents that satisfy every part of the query, none missing and
\* none extra, whether or not the index parts transform or tokenize
C1_FindExact ==
    (/\ FindReturnedLive
     /\ ~last.query.nil
     /\ \E i \in Registered(IndexList) : ScoreIsOne(IsMatch(Indexes[i], last.query)))
    => /\ last.err = "nil"
       /\ {last.docs[k] : k \in 1..Len(last.docs)} =
              {d \in Stored(db) : Satisfies(d, last.query)}

\* C2: on one collection, every document of the document bucket has, in every
\* index of the list, an entry under each key the index produces from it
C2_StoredDocsIndexed ==
    handles = 1
    => \A r \in DOMAIN db.documents : \A i \in Registered(IndexList) : Indexed(db, i, r)

\* C2: a Delete has returned with documents left and several indices, one of
\* them tokenizing, on the list
C2_Witness ==
    /\ handles = 1
    /\ last.op = "Delete"
    /\ live # {}
    /\ Cardinality(DOMAIN db.documents) >= 2
    /\ Len(IndexList) >= 2
    /\ 3 \in Registered(IndexList)

\* C3: the Delete of a document that was added leaves no entry with its
\* reference in any index of the list and no value under its reference in the
\* document bucket
C3_DeleteLeavesNoEntry ==
    [][\A doc \in DocIds :
          (last'.op = "Delete" /\ doc \in live /\ Delete(doc))
          => /\ refMake(doc) \notin DOMAIN db'.documents
             /\ \A i \in Registered(IndexList') :
                   refMake(doc) \notin RefsOf(db'.indices, BucketName(Indexes[i]))]_vars

\* C4: Get under the reference of a document returns the document while it is
\* added and not deleted since, nil otherwise, nil for a reference that was
\* never added, and no error
C4_GetReturnsStored ==
    last.op = "Get"
    => /\ last.err = "nil"
       /\ \A d \in DocIds :
             refMake(d) = last.arg => last.doc = (IF d \in live THEN d ELSE 0)
       /\ last.arg \notin {refMake(d) : d \in DocIds} => last.doc = 0

\* C4: Get returned a document while another one has been deleted
C4_Witness ==
    /\ last.op = "Get"
    /\ last.doc # 0
    /\ refMake(last.doc) = last.arg
    /\ Cardinality(live) >= 2
    /\ Cardinality(live) < Cardinality(DocIds)

\* C5: an AddIndex that returns no error for an index whose name is not on the
\* list, on a collection that holds documents, leaves an entry under every key
\* the index produces from each of them and the document bucket as it was
C5_AddIndexBackFills ==
    [][\A i \in IndexIds :
          (/\ last'.op = "AddIndex"
           /\ Indexes[i].name \notin ListNames(IndexList)
           /\ DOMAIN db.documents # {}
           /\ AddIndex(<<i>>)
           /\ last'.err = "nil")
          => /\ db'.documents = db.documents
             /\ \A r \in DOMAIN db'.documents : Indexed(db', i, r)]_vars

\* what DropIndex does for a name on the list, and what it leaves alone
DropIndexFrame(name) ==
    /\ last'.err = "nil"
    /\ db'.documents = db.documents
    /\ IndexList' = SelectSeq(IndexList, LAMBDA i : Indexes[i].name # name)
    /\ name \in ListNames(IndexList) => name \notin DOMAIN db'.indices
    /\ \A n \in DOMAIN db.indices \ {name} :
          n \in DOMAIN db'.indices /\ db'.indices[n] = db.indices[n]
    /\ DOMAIN db'.indices \subseteq DOMAIN db.indices

\* C6: DropIndex removes the bucket of the index of that name and takes it off
\* the list, leaving the document bucket and the other index buckets as they
\* were; for a name that is not on the list it leaves the documents, every
\* index bucket and the list as they were (the collection bucket is created
\* when the store has none); it returns no error
C6_DropIndexFrame ==
    [][\A name \in DropNames :
          (last'.op = "DropIndex" /\ DropIndex(name))
          => /\ DropIndexFrame(name)
             /\ name \notin ListNames(IndexList)
                => /\ db'.indices = db.indices
                   /\ IndexList' = IndexList]_vars

\* C6 as stated: for a name that is not on the list DropIndex changes nothing
C6_DropUnknownChangesNothing ==
    [][\A name \in DropNames :
          (last'.op = "DropIndex" /\ DropIndex(name))
          => /\ DropIndexFrame(name)
             /\ name \notin ListNames(IndexList)
                => /\ db' = db
                   /\ IndexList' = IndexList]_vars

\* C6: a DropIndex took an index off the list of a collection that holds
\* documents and another index with entries
C6_Witness ==
    /\ last.op = "DropIndex"
    /\ last.arg = 1
    /\ DOMAIN db.documents # {}
    /\ \E i \in Registered(IndexList) : RefsOf(db.indices, BucketName(Indexes[i])) # {}

\* an index of that name is on the list, or its bucket is in the store
Present(i) ==
    \/ Indexes[i].name \in ListNames(IndexList)
    \/ BucketName(Indexes[i]) \in DOMAIN db.indices

\* C7: AddIndex of an index whose name is present returns no error, leaves
\* exactly one index of that name on the list and every index entry and
\* document as it was; with the name on the list nothing changes at all
C7_AddIndexPresentNoOp ==
    [][\A i \in IndexIds :
          (last'.op = "AddIndex" /\ Present(i) /\ AddIndex(<<i>>))
          => /\ last'.err = "nil"
             /\ db'.indices = db.indices
             /\ db'.documents = db.documents
             /\ Cardinality({k \in 1..Len(IndexList') :
                               Indexes[IndexList'[k]].name = Indexes[i].name}) = 1
             /\ Indexes[i].name \in ListNames(IndexList)
                => db' = db /\ IndexList' = IndexList]_vars

\* C7: an AddIndex returned no error and registered nothing, on a collection
\* with documents and indices
C7_Witness ==
    /\ last.op = "AddIndex"
    /\ last.err = "nil"
    /\ last.arg = 0
    /\ IndexList # <<>>
    /\ DOMAIN db.documents # {}

C9_FindCancelledOnEntry ==
    (pc = "done" /\ last.op = "Find" /\ last.ctx0 \in {"canceled", "deadline"})
    => /\ last.err = ctxErr(last.ctx0)
       /\ last.docs = <<>>

\* the walker of the Find in flight has returned the error of the context
WalkerSawCancel == last.op = "Find" /\ call.walkErr # "nil"

\* C10: once the walker of Find has seen the context done it is not invoked
\* again, and Find returns the error of the context with no documents
C10_NoPartialResult ==
    /\ [](WalkerSawCancel /\ pc = "done"
          => /\ last.err = call.walkErr
             /\ last.err \in {"context.Canceled", "context.DeadlineExceeded"}
             /\ last.docs = <<>>)
    /\ [][WalkerSawCancel
          => /\ call'.calls = call.calls
             /\ call'.docs = call.docs
             /\ call'.walkErr = call.walkErr]_vars

\* C10: a Find returned after its walker saw the context done, with documents
\* collected before and the plan not at its end
C10_Witness ==
    /\ WalkerSawCancel
    /\ pc = "done"
    /\ last.ctx0 = "background"
    /\ Len(call.docs) >= 1
    /\ Len(call.pending) >= 1

\* what the plan of the Iterate or IndexIterate that returned had to hand over:
\* a read call leaves the store and the index list as they were
Handed ==
    IF last.op = "Iterate"
    THEN execute(db, queryPlan(IndexList, last.query), last.query)
    ELSE indexIterate(db, IndexList, last.query)

\* C11: when the walker of Iterate, or the fn of IndexIterate, returns an error
\* at one of its invocations, it is not invoked again and the call returns
\* that error
C11_WalkerErrorAborts ==
    (/\ pc = "done"
     /\ last.op \in {"Iterate", "IndexIterate"}
     /\ last.arg \in 1..Len(Handed.emit))
        => last.err = "b00m" /\ last.calls = last.arg

\* C11: a walker failed at its first invocation while the plan had more to
\* hand over, for Iterate on a result scan
C11_Witness ==
    /\ pc = "done"
    /\ last.op = "Iterate"
    /\ last.plan = "resultScan"
    /\ last.arg = 1
    /\ Len(Handed.emit) >= 2
    /\ last.err = "b00m"

\* C12: Find and Iterate called with a nil query return ErrNoQuery, the walker
\* is not invoked, no document is returned and the store and the index list
\* are left as they were
C12_NilQueryNoQuery ==
    /\ []((/\ last.op \in {"Find", "Iterate"}
           /\ last.query.nil
           /\ pc = "done")
              => /\ last.err = "ErrNoQuery"
                 /\ last.calls = 0
                 /\ last.docs = <<>>)
    /\ [][(last'.op \in {"Find", "Iterate"} /\ last'.query.nil)
              => db' = db /\ IndexList' = IndexList]_vars

\* C12: Find returned for a nil query on a collection that holds documents and
\* an index
C12_Witness ==
    /\ pc = "done"
    /\ last.op = "Find"
    /\ last.query.nil
    /\ last.err = "ErrNoQuery"
    /\ Cardinality(DOMAIN db.documents) >= 2
    /\ IndexList # <<>>

\* C13: an Add that returns an error leaves the store exactly as it was before
\* the call, and an Add of a set with a document the indices cannot parse, on a
\* collection with an index, returns an error
C13_AddAtomic ==
    [][/\ (last'.op = "Add" /\ last'.err # "nil") => db' = db
       /\ \A jsonSet \in AddSets :
             (/\ last'.op = "Add"
              /\ IndexList # <<>>
              /\ \E i \in 1..Len(jsonSet) : ~ValidJSON(jsonSet[i])
              /\ Add(jsonSet))
                 => last'.err # "nil" /\ db' = db]_vars

\* C13: an Add failed on a later document of its set after it had put an
\* earlier one, on a collection that holds documents and an index
C13_Witness ==
    /\ last.op = "Add"
    /\ last.err # "nil"
    /\ last.arg >= 1
    /\ IndexList # <<>>
    /\ DOMAIN db.documents # {}

\* the parts of the query of the Find that returned which the index findIndex
\* chose does not cover
Residual ==
    QueryPartsOutsideIndex(Indexes[findIndex(IndexList, last.query)], last.query)

\* a Find under a live context that ran a result scan on an index covering
\* only some of the parts of its query
ResultScanReturned ==
    /\ FindReturnedLive
    /\ last.plan = "resultScan"
    /\ Len(Residual) >= 1

\* C14: a Find answered by a result scan on an index that covers only some of
\* the query's parts returns only stored documents that satisfy every part of
\* the query, those in the index and those outside it
C14_ResultScanSound ==
    ResultScanReturned
        => \A k \in 1..Len(last.docs) :
              /\ last.docs[k] \in Stored(db)
              /\ Satisfies(last.docs[k], last.query)

\* C15: for tuples of one number of parts, Split gives back the parts
\* ComposeKey was given, and no other tuple of that many parts has the same
\* key, whatever bytes the parts hold (none, or the delimiter byte among them)
C15_ComposeKeyRoundTrip ==
    /\ fn.op = "Split" => fn.out = fn.parts
    /\ fn.op = "ComposeKey"
          => \A other \in KeyTuplesIn :
                (Len(other) = Len(fn.in) /\ ComposeKey(other) = fn.out) => other = fn.in

\* the order of two tuples of as many parts, compared part by part in byte
\* order: -1, 0 or 1
RECURSIVE TupleCompare(_, _)
TupleCompare(a, b) ==
    IF Len(a) = 0 THEN 0
    ELSE IF BytesCompare(Head(a), Head(b)) # 0 THEN BytesCompare(Head(a), Head(b))
    ELSE TupleCompare(Tail(a), Tail(b))

\* C16: for two tuples of as many parts, the byte order of the composed keys is
\* the order of the tuples compared part by part, whatever bytes the parts
\* hold (bytes below the delimiter among them)
C16_KeyOrderIsTupleOrder ==
    fn.op = "KeyCompare" => fn.out = TupleCompare(fn.in[1], fn.in[2])

\* the term paths of the parts of a query
QueryPaths(query) == {query.parts[k].termPath : k \in 1..Len(query.parts)}

\* the number of leading parts of an index whose term path is in the query
Leading(index, query) ==
    Cardinality({k \in 1..Len(index.indexParts) :
                    \A j \in 1..k : index.indexParts[j].termPath \in QueryPaths(query)})

\* C17: for an index of n parts IsMatch returns m / n, m the number of leading
\* index parts whose term path is in the query, in any query order: 0 when the
\* first index part is not in the query, never below 0 or above 1, and 1.0
\* exactly when every index part has a query part
C17_IsMatchScore ==
    fn.op = "IsMatch"
    => LET index == AllIndexes[fn.in[1]]
           query == fn.in[2]
           n     == Len(index.indexParts)
       IN  /\ fn.out[1] * n = Leading(index, query) * fn.out[2]
           /\ fn.out[2] > 0
           /\ index.indexParts[1].termPath \notin QueryPaths(query) => fn.out[1] = 0
           /\ 0 <= fn.out[1] /\ fn.out[1] <= fn.out[2]
           /\ fn.out[1] = fn.out[2]
                 <=> \A k \in 1..n : index.indexParts[k].termPath \in QueryPaths(query)

\* C17: IsMatch scored 2/3 for a query whose parts are not in index order
C17_Witness ==
    /\ fn.op = "IsMatch"
    /\ fn.out = <<2, 3>>
    /\ fn.in[2].parts[1].termPath # AllIndexes[fn.in[1]].indexParts[1].termPath

\* the references Index.Iterate handed to the walker
EmittedRefs == {fn.out.emit[k].ref : k \in 1..Len(fn.out.emit)}

\* the scalars of a document at a term path
ScalarsAt(d, termPath) ==
    LET vs == ValuesAtPath(d, termPath).values IN {vs[k] : k \in 1..Len(vs)}

\* C18: for an index part with an idempotent transform t and no tokenizer, a
\* document whose value at the part's path is v is emitted by the index-backed
\* query Eq(path, w) whenever t(w) = t(v)
C18_EqThroughTransform ==
    fn.op = "IndexIterate"
    => LET part == AllIndexes[fn.index].indexParts[1]
           t    == part.transformer
           q    == fn.in.parts
       IN  ( /\ t # "nil"
             /\ part.tokenizer = "nil"
             /\ Len(q) = 1
             /\ q[1].kind = "eq"
             /\ PathEquals(q[1].termPath, part.termPath) )
           => \A d \in fn.docs :
                  \A v \in ScalarsAt(d, part.termPath) :
                      ApplyTransform(t, q[1].value) = ApplyTransform(t, v)
                          => refMake(d) \in EmittedRefs

\* the words of a string: its maximal runs of bytes that are not white space
Words(s) ==
    {SubSeq(s, x[1], x[2]) :
        x \in {y \in (1..Len(s)) \X (1..Len(s)) :
                  /\ y[1] <= y[2]
                  /\ \A k \in y[1]..y[2] : ~IsSpace(s[k])
                  /\ y[1] = 1 \/ IsSpace(s[y[1] - 1])
                  /\ y[2] = Len(s) \/ IsSpace(s[y[2] + 1])}}

\* the key list of an index part for a document, as a set of byte strings:
\* every value at the path, cut into words when the part has a tokenizer and
\* the value is a string, then transformed; one empty byte string when the
\* document has no value there
PartKeys(j, d) ==
    LET tokens(v) == IF j.tokenizer # "nil" /\ v.kind = "string"
                     THEN {ScalarString(w) : w \in Words(v.s)}
                     ELSE {v}
        all == UNION {tokens(v) : v \in ScalarsAt(d, j.termPath)}
    IN  IF all = {} THEN {<<>>}
        ELSE {Bytes(ApplyTransform(j.transformer, tok)) : tok \in all}

\* the compound keys of the cross product of the parts' key lists
CrossKeys(index, d) ==
    LET n == Len(index.indexParts)
        U == UNION {PartKeys(index.indexParts[p], d) : p \in 1..n}
    IN  {ComposeKey(f) : f \in {g \in [1..n -> U] :
                                   \A p \in 1..n : g[p] \in PartKeys(index.indexParts[p], d)}}

\* C19: Index.Add(bucket, ref, doc) stores ref under exactly the compound keys
\* of the cross product of the per-part key lists (each value tokenized, then
\* transformed; an empty byte string for a part without a value) and under no
\* other key; what the bucket held stays
C19_AddStoresCrossProduct ==
    (fn.op = "IndexAdd" /\ fn.out = "nil")
    => LET index  == AllIndexes[fn.index]
           before == IndexBucket(fn.before, index)
           after  == IndexBucket(fn.indices, index)
           ref    == refMake(fn.in)
           was(k) == IF k \in DOMAIN before THEN before[k] ELSE {}
       IN  /\ DOMAIN after = DOMAIN before \cup CrossKeys(index, fn.in)
           /\ \A k \in DOMAIN after :
                 after[k] = was(k) \cup (IF k \in CrossKeys(index, fn.in) THEN {ref} ELSE {})

\* C19: Index.Add stored a document without a url under the two keys of its
\* two names, each followed by the empty url part, in a bucket that held
\* another document
C19_Witness ==
    /\ fn.op = "IndexAdd"
    /\ fn.out = "nil"
    /\ fn.index = 2
    /\ fn.in = 4
    /\ fn.docs = {1, 4}
    /\ DOMAIN IndexBucket(fn.indices, AllIndexes[2])
         = {<<97, KeyDelimiter, 118>>, <<97, KeyDelimiter>>, <<98, KeyDelimiter>>}
    /\ IndexBucket(fn.indices, AllIndexes[2])[<<98, KeyDelimiter>>] = {refMake(4)}

\* a <= b in byte-lexicographic order: a is a prefix of b, or a has the smaller
\* byte at the first position where they differ
LexLeq(a, b) ==
    \/ Len(a) <= Len(b) /\ \A k \in 1..Len(a) : a[k] = b[k]
    \/ \E k \in 1..Min(Len(a), Len(b)) :
          a[k] < b[k] /\ \A j \in 1..(k - 1) : a[j] = b[j]

\* C20: Range(path, begin, end).Condition(key, t) is true iff
\* t(begin).bytes <= key <= t(end).bytes in byte-lexicographic order, both
\* bounds inclusive, t the identity when there is no transform; so it is false
\* for every key when t(begin).bytes > t(end).bytes
C20_RangeCondition ==
    (fn.op = "Condition" /\ fn.in[1].kind = "range")
    => LET t    == fn.in[3]
           key  == fn.in[2]
           low  == Bytes(IF t = "nil" THEN fn.in[1].begin ELSE ToLower(fn.in[1].begin))
           high == Bytes(IF t = "nil" THEN fn.in[1].end ELSE ToLower(fn.in[1].end))
       IN  /\ fn.out <=> (LexLeq(low, key) /\ LexLeq(key, high))
           /\ ~LexLeq(low, high) => ~fn.out

\* C20: with ToLower, Range(path, "A", "B") held for the key "b", its end bound
C20_Witness ==
    /\ fn.op = "Condition"
    /\ fn.in = <<Range(nameTermPath, ScalarString(<<65>>), ScalarString(<<66>>)),
                 <<98>>, "ToLower">>
    /\ fn.out

\* C21: adding a document twice, in one Add or in two, leaves the store that
\* adding it once leaves, with the document under its reference, every key of
\* every index holding the reference, and no error
C21_AddTwiceIsAddOnce ==
    \A d \in DocIds :
        LET once  == add(db, IndexList, <<d>>)
            twice == add(db, IndexList, <<d, d>>)
            again == add(Update(db, once), IndexList, <<d>>)
        IN  once.err = "nil"
            => /\ twice.err = "nil"
               /\ again.err = "nil"
               /\ twice.db = once.db
               /\ again.db = once.db
               /\ once.db.documents[refMake(d)] = d
               /\ \A k \in 1..Len(IndexList) : Indexed(once.db, IndexList[k], refMake(d))

\* C21: an Add returned on a collection with the tokenizing index, whose
\* bucket holds the reference of the document named "A b" once under each of
\* its two keys; the document is added again from here
C21_Witness ==
    /\ last.op = "Add"
    /\ last.err = "nil"
    /\ pc = "idle"
    /\ 3 \in Registered(IndexList)
    /\ Stored(db) = {3}
    /\ IndexBucket(db.indices, Indexes[3]) = (<<97>> :> {refMake(3)}) @@ (<<98>> :> {refMake(3)})
    /\ add(db, IndexList, <<3, 3>>).db = db

C23_NoTransactionDataEscapes ==
    (pc = "done" /\ last.op \in {"Get", "Find"}) => ~last.owned

\* C24: when AddIndex(I) and Add([d]) run in two goroutines on one collection
\* and both return nil, I being registered by this AddIndex, the bucket of I
\* holds the reference of d under every key I produces from d
C24_ConcurrentAddIsIndexed ==
    (/\ th.addIndex.pc = "done"
     /\ th.add.pc = "done"
     /\ th.addIndex.err = "nil"
     /\ th.add.err = "nil"
     /\ th.addIndex.index \in Registered(IndexList))
    => Indexed(db, th.addIndex.index, refMake(th.add.doc))

\* the (key, ref) pairs of the bucket whose unpacked key parts pass the
\* condition of every query part that is on the path of an index part
PassingEntries(indices, index, query) ==
    LET b == IndexBucket(indices, index)
    IN  {e \in (DOMAIN b) \X RefsOf(indices, BucketName(index)) :
                 /\ e[2] \in b[e[1]]
                 /\ \A k \in 1..Len(index.indexParts) :
                       \A p \in 1..Len(query.parts) :
                          PathEquals(query.parts[p].termPath, index.indexParts[k].termPath)
                          => Condition(query.parts[p], KeyPart(e[1], k),
                                       index.indexParts[k].transformer)}

\* C25: Index.Iterate emits exactly the (key, ref) pairs of the bucket whose
\* unpacked key parts satisfy the conditions of all query parts the index
\* covers: the seek and the early termination skip no such key, and no key that
\* fails a condition is emitted
C25_IterateEmitsExactly ==
    (fn.op = "IndexIterate" /\ fn.out.err = "nil")
    => {<<fn.out.emit[k].key, fn.out.emit[k].ref>> : k \in 1..Len(fn.out.emit)}
          = PassingEntries(fn.indices, AllIndexes[fn.index], fn.in)

\* C26: the planner uses the index whose leading parts match the greatest
\* number of query parts: while a Find call runs on a result scan, no index of
\* the collection matches more leading parts than the index the plan uses
C26_LongestPrefixWins ==
    (pc = "find" /\ call.plan = "resultScan")
    => \A k \in 1..Len(IndexList) :
          LeadingMatches(Indexes[IndexList[k]].indexParts, call.query)
             <= LeadingMatches(Indexes[findIndex(IndexList, call.query)].indexParts,
                               call.query)

\* a Find under a live context that ran a full-table scan to its end
FullTableScanReturned ==
    /\ FindReturnedLive
    /\ last.plan = "fullTableScan"
    /\ last.err = "nil"

\* some scalar of the document at the part's path passes the part's condition
\* as the part itself evaluates it, no transform applied
PassesUntransformed(doc, part) ==
    \E v \in ScalarsAt(doc, part.termPath) : Condition(part, Bytes(v), "nil")

\* C27: a full-table scan that runs to its end delivers a stored document if
\* and only if, for every part of the query, at least one scalar at the part's
\* term path passes the part's condition evaluated without a transform; a
\* document without a value at a queried path is not delivered
C27_FullTableScanDelivers ==
    FullTableScanReturned
    => /\ {last.docs[k] : k \in 1..Len(last.docs)}
            = {d \in Stored(db) :
                 \A p \in 1..Len(last.query.parts) :
                    PassesUntransformed(d, last.query.parts[p])}
       /\ \A d \in Stored(db) :
             (\E p \in 1..Len(last.query.parts) :
                 ScalarsAt(d, last.query.parts[p].termPath) = {})
             => \A k \in 1..Len(last.docs) : last.docs[k] # d

\* C27 witness: a full-table scan over at least three stored documents that
\* delivered one, passed over a document whose value fails the condition, and
\* passed over a document without a value at the queried path
C27_Witness ==
    /\ FullTableScanReturned
    /\ Len(last.query.parts) >= 1
    /\ Len(last.docs) >= 1
    /\ \E d \in Stored(db) :
          /\ ScalarsAt(d, last.query.parts[1].termPath) = {}
          /\ \A k \in 1..Len(last.docs) : last.docs[k] # d
    /\ \E d \in Stored(db) :
          /\ ScalarsAt(d, last.query.parts[1].termPath) # {}
          /\ ~PassesUntransformed(d, last.query.parts[1])

\* the index has no transform and no tokenizer on any of its parts
Plain(index) ==
    \A k \in 1..Len(index.indexParts) :
        /\ index.indexParts[k].transformer = "nil"
        /\ index.indexParts[k].tokenizer = "nil"

\* C28: index transparency: in a collection whose indices have no transform
\* and no tokenizer, Find returns the same set of documents as a full-table
\* scan of the query over the same stored documents
C28_IndexTransparency ==
    (/\ FindReturnedLive
     /\ last.err = "nil"
     /\ \A i \in Registered(IndexList) : Plain(Indexes[i])
     /\ \A d \in Stored(db) : ValidJSON(d))
    => {last.docs[k] : k \in 1..Len(last.docs)}
          = {fullTableScan(db, last.query).emit[k].doc :
                k \in 1..Len(fullTableScan(db, last.query).emit)}

\* C29: Find delivers each stored document at most once per call, also when
\* several keys of the document in the index pass the query
C29_DeliveredOnce ==
    (pc = "done" /\ last.op = "Find")
    => \A i, j \in 1..Len(last.docs) : i # j => last.docs[i] # last.docs[j]

\* C30: no stale index entries: on one collection every entry (key, ref) in
\* the bucket of an index of the list has its document in the document bucket
\* under ref, and the index produces key from that document
C30_NoStaleEntries ==
    handles = 1
    => \A i \in Registered(IndexList) :
          LET name == BucketName(Indexes[i])
          IN  name \in DOMAIN db.indices
              => \A key \in DOMAIN db.indices[name] :
                    \A ref \in db.indices[name][key] :
                       /\ ref \in DOMAIN db.documents
                       /\ key \in KeysOf[i][db.documents[ref]].keys

\* C30 witness: a Delete has returned on a collection with two indices on the
\* list, both holding entries, one of them for a document with several keys
C30_Witness ==
    /\ handles = 1
    /\ last.op = "Delete"
    /\ last.err = "nil"
    /\ Len(IndexList) >= 2
    /\ \A i \in Registered(IndexList) :
          RefsOf(db.indices, BucketName(Indexes[i])) # {}
    /\ \E i \in Registered(IndexList) : \E r \in DOMAIN db.documents :
          Cardinality({key \in DOMAIN IndexBucket(db.indices, Indexes[i]) :
                          r \in IndexBucket(db.indices, Indexes[i])[key]}) >= 2
    /\ Cardinality(DOMAIN db.documents) >= 2

\* C31 as stated: for any prior contents of the bucket, Index.Add of a document
\* followed by Index.Delete of the same document leaves the bucket of the
\* index as it was before the Add
C31_AddDeleteAnyPrior ==
    (fn.op = "IndexDelete" /\ fn.out = "nil" /\ fn.in = fn.added)
    => IndexBucket(fn.indices, AllIndexes[fn.index])
          = IndexBucket(fn.start, AllIndexes[fn.index])

\* the bucket holds no entry of the reference under a key of the document
NoEntryOf(indices, i, d) ==
    \A key \in KeysOf[i][d].keys :
        ~HasEntry(indices, BucketName(AllIndexes[i]), key, refMake(d))

\* C31: Index.Add of a document followed by Index.Delete of the same document
\* leaves the bucket of the index as it was before the Add whenever the bucket
\* held no entry of the document before; Index.Delete leaves no nested bucket
\* without a reference, and leaves the bucket as it was when the entries of the
\* document are missing
C31_AddDeleteRestores ==
    (fn.op = "IndexDelete" /\ fn.out = "nil")
    => /\ (fn.in = fn.added /\ NoEntryOf(fn.start, fn.index, fn.in))
          => IndexBucket(fn.indices, AllIndexes[fn.index])
                = IndexBucket(fn.start, AllIndexes[fn.index])
       /\ \A key \in DOMAIN IndexBucket(fn.indices, AllIndexes[fn.index]) :
             IndexBucket(fn.indices, AllIndexes[fn.index])[key] # {}
       /\ NoEntryOf(fn.before, fn.index, fn.in)
          => fn.indices = fn.before

\* C31 witness: a document with several keys was added to a bucket that held
\* another document under one of these keys, and deleted again
C31_Witness ==
    /\ fn.op = "IndexDelete"
    /\ fn.out = "nil"
    /\ fn.in = fn.added
    /\ NoEntryOf(fn.start, fn.index, fn.in)
    /\ Cardinality(KeysOf[fn.index][fn.in].keys) >= 2
    /\ \E key \in KeysOf[fn.index][fn.in].keys :
          key \in DOMAIN IndexBucket(fn.start, AllIndexes[fn.index])
    /\ \E key \in KeysOf[fn.index][fn.in].keys :
          key \notin DOMAIN IndexBucket(fn.indices, AllIndexes[fn.index])

\* C32: an AddIndex call with several indices that returns no error leaves
\* every index whose name was not on the list registered and back-filled, also
\* when an earlier index of the call has a name that was on the list
C32_AddIndexRegistersAll ==
    [][\A indexes \in IndexSets :
          (last'.op = "AddIndex" /\ AddIndex(indexes) /\ last'.err = "nil" /\ handles = 1)
          => \A k \in 1..Len(indexes) :
                Indexes[indexes[k]].name \notin ListNames(IndexList)
                => /\ Indexes[indexes[k]].name \in ListNames(IndexList')
                   /\ (\A j \in 1..(k - 1) :
                          Indexes[indexes[j]].name # Indexes[indexes[k]].name)
                      => \A r \in DOMAIN db'.documents : Indexed(db', indexes[k], r)]_vars

\* how often a part is in a sequence of parts
Count(parts, part) == Cardinality({k \in 1..Len(parts) : parts[k] = part})

\* the parts of a sequence
PartsOf(parts) == {parts[k] : k \in 1..Len(parts)}

\* C33: Sort without the missing parts returns one query part for each leading
\* index part that has one, in the order of the index, and nothing when the
\* first index part has none; Sort with the missing parts starts with the same
\* parts and holds every part of the query as often as the query does
C33_SortOrdersByIndex ==
    fn.op = "Sort"
    => LET index   == AllIndexes[fn.in[1]]
           query   == fn.in[2]
           m       == LeadingMatches(index.indexParts, query)
       IN  /\ Len(fn.out) >= m
           /\ \A k \in 1..m :
                 /\ fn.out[k] \in PartsOf(query.parts)
                 /\ PathEquals(fn.out[k].termPath, index.indexParts[k].termPath)
           /\ ~fn.in[3] => Len(fn.out) = m
           /\ (~fn.in[3] /\ ~HasPart(query, index.indexParts[1])) => fn.out = <<>>
           /\ fn.in[3] => \A part \in PartsOf(query.parts) \cup PartsOf(fn.out) :
                             Count(fn.out, part) = Count(query.parts, part)

\* C33 witness: Sort with the missing parts on a two-part index and a query
\* that names the second index path before the first, or a path outside the
\* index before the first index path
C33_Witness ==
    /\ fn.op = "Sort"
    /\ fn.in[3]
    /\ Len(fn.out) = 2
    /\ Len(AllIndexes[fn.in[1]].indexParts) >= 2
    /\ fn.out[1] = fn.in[2].parts[2]
    /\ fn.out[2] = fn.in[2].parts[1]
    /\ fn.out[1] # fn.out[2]

\* C34: Sort without the missing parts and QueryPartsOutsideIndex partition
\* the query: every part of the query is in the two results together as often
\* as it is in the query, and a part on an index path behind an index path the
\* query does not name is outside the index
C34_SortAndOutsidePartition ==
    fn.op = "QueryPartsOutsideIndex"
    => LET index  == AllIndexes[fn.in[1]]
           query  == fn.in[2]
           sorted == Sort(index, query, FALSE)
       IN  /\ \A part \in PartsOf(query.parts) \cup PartsOf(sorted) \cup PartsOf(fn.out) :
                 Count(sorted, part) + Count(fn.out, part) = Count(query.parts, part)
           /\ \A p \in 1..Len(query.parts) :
                 (\E k \in 2..Len(index.indexParts) :
                     /\ PathEquals(query.parts[p].termPath, index.indexParts[k].termPath)
                     /\ \E j \in 1..(k - 1) : ~HasPart(query, index.indexParts[j]))
                 => query.parts[p] \in PartsOf(fn.out)

\* C34 witness: a query of two parts of which the index covers one, the other
\* being on a path of the index behind a path the query does not name
C34_Witness ==
    /\ fn.op = "QueryPartsOutsideIndex"
    /\ Len(fn.in[2].parts) = 2
    /\ Len(fn.out) = 1
    /\ Len(Sort(AllIndexes[fn.in[1]], fn.in[2], FALSE)) = 1
    /\ \E k \in 3..Len(AllIndexes[fn.in[1]].indexParts) :
          PathEquals(fn.out[1].termPath, AllIndexes[fn.in[1]].indexParts[k].termPath)

\* the nodes (maps) of a list of JSON values, those of nested lists included,
\* in document order
RECURSIVE FlattenNodes(_)
FlattenNodes(e) ==
    IF Len(e) = 0 THEN <<>>
    ELSE (CASE Head(e).t = "slice" -> FlattenNodes(Head(e).e)
            [] Head(e).t = "map"   -> <<Head(e).m>>
            [] OTHER               -> <<>>)
         \o FlattenNodes(Tail(e))

\* the nodes one term further: the nodes of the list the term maps to
RECURSIVE StepNodes(_, _)
StepNodes(nodes, term) ==
    IF Len(nodes) = 0 THEN <<>>
    ELSE (IF term \in DOMAIN Head(nodes) /\ Head(nodes)[term].t = "slice"
          THEN FlattenNodes(Head(nodes)[term].e)
          ELSE <<>>)
         \o StepNodes(Tail(nodes), term)

\* the nodes reached from the nodes by following the terms of the path
RECURSIVE NodesAt(_, _)
NodesAt(nodes, termPath) ==
    IF Len(termPath) = 0 THEN nodes
    ELSE NodesAt(StepNodes(nodes, Head(termPath)), Tail(termPath))

IsScalarValue(v) == v.t \in {"bool", "string", "float64"}
IsScalarList(v)  == v.t = "slice" /\ \A k \in 1..Len(v.e) : IsScalarValue(v.e[k])

\* the node's @value or @id is a boolean, string or double, its @list or @set
\* a list of these
PlainNode(m) ==
    CASE "@value" \in DOMAIN m -> IsScalarValue(m["@value"])
      [] "@id" \in DOMAIN m    -> IsScalarValue(m["@id"])
      [] "@list" \in DOMAIN m  -> IsScalarList(m["@list"])
      [] "@set" \in DOMAIN m   -> IsScalarList(m["@set"])
      [] OTHER                 -> TRUE

\* the scalars of a plain node: @value, else @id, else @list, else @set
NodeScalars(m) ==
    CASE "@value" \in DOMAIN m -> <<m["@value"].sc>>
      [] "@id" \in DOMAIN m    -> <<m["@id"].sc>>
      [] "@list" \in DOMAIN m  -> [k \in 1..Len(m["@list"].e) |-> m["@list"].e[k].sc]
      [] "@set" \in DOMAIN m   -> [k \in 1..Len(m["@set"].e) |-> m["@set"].e[k].sc]
      [] OTHER                 -> <<>>

RECURSIVE ScalarsOfNodes(_)
ScalarsOfNodes(nodes) ==
    IF Len(nodes) = 0 THEN <<>>
    ELSE NodeScalars(Head(nodes)) \o ScalarsOfNodes(Tail(nodes))

\* the nodes of the document the term path reaches
Reached(d, termPath) == NodesAt(FlattenNodes(Expanded(d).e), termPath)

AllPlain(nodes) == \A k \in 1..Len(nodes) : PlainNode(nodes[k])

\* C35: for a term path that is not empty and a document whose nodes at the
\* path hold booleans, strings and doubles, ValuesAtPath returns no error and
\* the scalars of exactly the nodes the path reaches, in document order, every
\* element of every list on the way included; nothing when a term is absent or
\* maps to something that is not a list
C35_ValuesOfReachedNodes ==
    (/\ fn.op = "ValuesAtPath"
     /\ fn.in[2] # <<>>
     /\ ValidJSON(fn.in[1])
     /\ AllPlain(Reached(fn.in[1], fn.in[2])))
    => /\ fn.out.err = "nil"
       /\ fn.out.values = ScalarsOfNodes(Reached(fn.in[1], fn.in[2]))

\* C35 witness: a path of two terms through a list of two nodes, the second
\* with two values: three scalars
C35_Witness ==
    /\ fn.op = "ValuesAtPath"
    /\ Len(fn.in[2]) = 2
    /\ Len(fn.out.values) = 3
    /\ Len(Reached(fn.in[1], SubSeq(fn.in[2], 1, 1))) = 2
    /\ AllPlain(Reached(fn.in[1], fn.in[2]))

\* C36: for the empty term path ValuesAtPath returns the scalars of the
\* top-level nodes of the expanded document: of each its @value, else its @id,
\* else its @list, else its @set, else nothing
C36_EmptyPathIsNodeValue ==
    (/\ fn.op = "ValuesAtPath"
     /\ fn.in[2] = <<>>
     /\ ValidJSON(fn.in[1])
     /\ AllPlain(Reached(fn.in[1], <<>>)))
    => /\ fn.out.err = "nil"
       /\ fn.out.values = ScalarsOfNodes(Reached(fn.in[1], <<>>))

\* C37: ValuesAtPath on a document that is not parsable JSON, and Index.Add of
\* such a document, return ErrInvalidJSON
C37_UnparsableIsInvalidJSON ==
    /\ (fn.op = "ValuesAtPath" /\ ~ValidJSON(fn.in[1])) => fn.out.err = "ErrInvalidJSON"
    /\ (fn.op = "IndexAdd" /\ ~ValidJSON(fn.in)) => fn.out = "ErrInvalidJSON"

\* C38: ValuesAtPath on a parsable document returns a list of scalars or an
\* error, it does not panic
C38_ExtractionNeverAborts ==
    (fn.op = "ValuesAtPath" /\ ValidJSON(fn.in[1]))
    => \A k \in 1..Len(fn.out.values) : fn.out.values[k] # ScalarPanic

\* C39: q.And(part) returns a query whose parts are the parts of q followed by
\* part, and leaves the parts of q and of every query value built before as
\* they were
C39_AndLeavesOthers ==
    [][fn'.op = "And"
       => /\ queryParts(fn'.arrays, fn'.queries[fn'.out])
                = Append(queryParts(fn.arrays, fn.queries[fn'.in[1]]), fn'.in[2])
          /\ \A n \in 1..Len(fn.queries) :
                queryParts(fn'.arrays, fn'.queries[n]) = queryParts(fn.arrays, fn.queries[n])]_vars

=============================================================================
